---- MODULE Spec2Model ----
(***************************************************************************)
(* A model of the EC2 environment provider (environs/ec2/ec2.go): the      *)
(* bootstrap-state lifecycle (Bootstrap, Destroy), instance start and      *)
(* termination, the gathering of instance records over several list        *)
(* passes, the reconciliation of security groups and the retry loops; of   *)
(* the switch command as its test suite drives it (cmd/juju/commands);     *)
(* and of the managed filesystem source (storage/provider/managedfs.go).   *)
(*                                                                         *)
(* Every function of the source is an operator over the state it works on  *)
(* and an oracle naming the outcome of each remote call; every public      *)
(* operation is one action.  The specifications share the variables:       *)
(*   Spec        the public operations against one provider                *)
(*   SpecGroups  ensureGroup against groups that other tooling may change  *)
(*   SpecPerms   newPermSet and ipPerms on lists of permissions            *)
(*   SpecAttempt a retry loop under an attempt strategy                    *)
(*   SpecSwitch  the switch command against a client store                 *)
(*   SpecFs      AttachFilesystems on a host                               *)
(*   SpecList    one Instances call, a gather pass per step                *)
(*   SpecInfo    DNSName and StateInfo, a poll per step                    *)
(*   SpecRace    two Bootstrap calls, interleaved                          *)
(***************************************************************************)
EXTENDS Integers, Sequences, FiniteSets, TLC

VARIABLES
    bstate,     \* the persisted bootstrapState object in the blob store
    running,    \* ids of the instances alive at the provider
    nextId,     \* number of instance ids the provider has handed out
    groups,     \* the provider's security groups: name -> [exists, perms]
    op,         \* the last public operation: its name, arguments and result
    calls,      \* the remote calls the last operation issued, in order
    lst,        \* the Instances call in progress (SpecList)
    dns,        \* the DNSName call in progress and the instance it is on (SpecInfo)
    info,       \* the StateInfo call in progress (SpecInfo)
    race,       \* two Bootstrap calls running at once (SpecRace)
    att,        \* the retry loop in progress: its strategy, clock and attempts (SpecAttempt)
    sw,         \* the client store, the current controller and the last switch (SpecSwitch)
    fs          \* the managed filesystem source and the mounts of its host (SpecFs)

vars == <<bstate, running, nextId, groups, op, calls, lst, dns, info, race, att, sw, fs>>

----------------------------------------------------------------------------
(* Bounds of the model. *)

\* the most attempts a retry loop gets before its time budget ends
MaxAttempts == 2
\* the most instance ids the provider hands out
MaxInst == 3
\* the longest list of instances a caller passes to Destroy
MaxKnown == 1
\* the longest id list passed to Instances
MaxIds == 2
\* the most instance records in one list response
MaxResp == 2
\* the most polls the time budget of longAttempt allows
MaxPolls == 2
\* the most gather passes the time budget of shortAttempt allows an Instances
\* call that is followed pass by pass
MaxPasses == 3
\* the longest total of a retry strategy drawn at will, in ticks of 200ms
MaxTotal == 5
\* the longest delay of a retry strategy drawn at will, in ticks
MaxDelay == 2
\* the longest time one attempt of a retry loop takes, in ticks
MaxBody == 1
\* the most next() calls of one retry loop the model follows
MaxCalls == 40
\* the most filesystems one AttachFilesystems call is asked to attach
MaxArgs == 2
\* the most sources of one kind in the one rule of a single-rule list
MaxSources == 2
\* the longest list of rules with at most one source of each kind
MaxRules == 2

----------------------------------------------------------------------------
(* Errors. *)

Nil == [kind |-> "nil"]
Ec2Err(code) == [kind |-> "ec2", code |-> code]
S3Err(status) == [kind |-> "s3", status |-> status]
\* an error that is neither *ec2.Error nor *s3.Error (transport, decoding)
OtherErr(msg) == [kind |-> "other", msg |-> msg]
\* fmt.Errorf("<msg>: %v", err)
Errorf(msg, err) == [kind |-> "errorf", msg |-> msg, cause |-> err]
ErrMissingInstance == [kind |-> "ErrMissingInstance"]

\* a faulty ec2ErrCode that reads no code from any error
ec2ErrCodeBlank(err) == ""

ec2ErrCode(err) == IF err.kind = "ec2" THEN err.code ELSE ""

----------------------------------------------------------------------------
(* Helpers on sequences and sets. *)

RECURSIVE SetToSeq(_)
SetToSeq(S) ==
    IF S = {} THEN <<>>
    ELSE LET x == CHOOSE y \in S : TRUE IN <<x>> \o SetToSeq(S \ {x})

Range(s) == {s[i] : i \in DOMAIN s}

\* F applied to the value of e: the local variable of a function body
With(e, F(_)) == F(e)

SeqsUpTo(S, n) == UNION {[1..k -> S] : k \in 0..n}

\* a remote call as the log records it
Call(api, name, perms, ids, err) ==
    [api |-> api, name |-> name, perms |-> perms, ids |-> ids, err |-> err]

Apis(cs) == [i \in DOMAIN cs |-> cs[i].api]
CallsOf(cs, api) == SelectSeq(cs, LAMBDA c : c.api = api)

----------------------------------------------------------------------------
(* Security-group permissions. *)

zkPort == 2181
sshPort == 22

IPPerm(protocol, fromPort, toPort, sourceGroups, sourceIPs) ==
    [Protocol |-> protocol, FromPort |-> fromPort, ToPort |-> toPort,
     SourceGroups |-> sourceGroups, SourceIPs |-> sourceIPs]

UserSecurityGroup(id, name, ownerId) == [Id |-> id, Name |-> name, OwnerId |-> ownerId]

permKey(protocol, fromPort, toPort, groupId, ipAddr) ==
    [protocol |-> protocol, fromPort |-> fromPort, toPort |-> toPort,
     groupId |-> groupId, ipAddr |-> ipAddr]

\* a faulty newPermSet: only the first source of each rule is kept
RECURSIVE newPermSetFirstSource(_)
newPermSetFirstSource(ps) ==
    IF ps = <<>> THEN {}
    ELSE LET p == Head(ps)
             k == permKey(p.Protocol, p.FromPort, p.ToPort, "", "")
         IN  {[k EXCEPT !.groupId = p.SourceGroups[i].Id] :
                  i \in {j \in DOMAIN p.SourceGroups : j = 1}}
             \cup {[k EXCEPT !.ipAddr = p.SourceIPs[i]] :
                  i \in {j \in DOMAIN p.SourceIPs : j = 1 /\ p.SourceGroups = <<>>}}
             \cup newPermSetFirstSource(Tail(ps))

\* newPermSet: one member per (rule, source); the name and owner id of a
\* source group are ignored
RECURSIVE newPermSet(_)
newPermSet(ps) ==
    IF ps = <<>> THEN {}
    ELSE LET p == Head(ps)
             k == permKey(p.Protocol, p.FromPort, p.ToPort, "", "")
         IN  {[k EXCEPT !.groupId = p.SourceGroups[i].Id] : i \in DOMAIN p.SourceGroups}
             \cup {[k EXCEPT !.ipAddr = p.SourceIPs[i]] : i \in DOMAIN p.SourceIPs}
             \cup newPermSet(Tail(ps))

\* permSet.ipPerms: one IPPerm per member (Go ranges over the map in an
\* unspecified order; the provider reads the slice as a set of rules)
ipPerms(m) ==
    LET one(p) == IF p.ipAddr # ""
                  THEN IPPerm(p.protocol, p.fromPort, p.toPort, <<>>, <<p.ipAddr>>)
                  ELSE IPPerm(p.protocol, p.fromPort, p.toPort,
                              <<UserSecurityGroup(p.groupId, "", "")>>, <<>>)
        s == SetToSeq(m)
    IN  [i \in DOMAIN s |-> one(s[i])]

\* the rules setUpGroups asks for on the environment's group
jujuGroupPerms ==
    << IPPerm("tcp", zkPort, zkPort, <<>>, <<"0.0.0.0/0">>),
       IPPerm("tcp", sshPort, sshPort, <<>>, <<"0.0.0.0/0">>) >>

groupName == "juju-env"
machineGroupName(machineId) == IF machineId = 0 THEN "juju-env-0" ELSE "juju-env-1"
MachineIds == {0}
GroupNames == {groupName} \cup {machineGroupName(m) : m \in MachineIds}

zeroGroup == ""

----------------------------------------------------------------------------
(* The provider's side of security groups. *)

\* the rules an IPPerm list stands for at the provider: one per source
RuleAtoms(perms) ==
    UNION { {permKey(perms[i].Protocol, perms[i].FromPort, perms[i].ToPort,
                     perms[i].SourceGroups[j].Id, "") : j \in DOMAIN perms[i].SourceGroups}
            \cup
            {permKey(perms[i].Protocol, perms[i].FromPort, perms[i].ToPort,
                     "", perms[i].SourceIPs[j]) : j \in DOMAIN perms[i].SourceIPs}
          : i \in DOMAIN perms }

\* the provider's description of a rule set: one IPPerm per protocol and port
\* range, carrying all its sources, source groups with name and owner
describePerms(atoms) ==
    LET heads == {<<a.protocol, a.fromPort, a.toPort>> : a \in atoms}
        of(h) == {a \in atoms : <<a.protocol, a.fromPort, a.toPort>> = h}
        gs(h) == SetToSeq({a.groupId : a \in {b \in of(h) : b.groupId # ""}})
        ips(h) == SetToSeq({a.ipAddr : a \in {b \in of(h) : b.ipAddr # ""}})
        hs == SetToSeq(heads)
    IN  [i \in DOMAIN hs |->
            IPPerm(hs[i][1], hs[i][2], hs[i][3],
                   [j \in DOMAIN gs(hs[i]) |->
                        UserSecurityGroup(gs(hs[i])[j], "peer", "111122223333")],
                   ips(hs[i]))]

NoGroup == [exists |-> FALSE, perms |-> {}]

\* ec2.CreateSecurityGroup: a new group has no rules
CreateSecurityGroup(gs, name, fail) ==
    LET err == IF fail THEN Ec2Err("RequestLimitExceeded")
               ELSE IF gs[name].exists THEN Ec2Err("InvalidGroup.Duplicate")
               ELSE Nil
    IN  [gs |-> IF err = Nil THEN [gs EXCEPT ![name] = [exists |-> TRUE, perms |-> {}]]
                ELSE gs,
         err |-> err]

\* ec2.SecurityGroups(names): the named group and its current rules
SecurityGroups(gs, name, fail) ==
    IF fail THEN [err |-> Ec2Err("RequestLimitExceeded"), IPPerms |-> <<>>]
    ELSE [err |-> Nil, IPPerms |-> describePerms(gs[name].perms)]

\* ec2.RevokeSecurityGroup: removes the rules; a rule the group does not hold
\* is refused
RevokeSecurityGroup(gs, g, perms, fail) ==
    IF fail THEN [gs |-> gs, err |-> Ec2Err("RequestLimitExceeded")]
    ELSE IF ~(RuleAtoms(perms) \subseteq gs[g].perms)
    THEN [gs |-> gs, err |-> Ec2Err("InvalidPermission.NotFound")]
    ELSE [gs |-> [gs EXCEPT ![g].perms = @ \ RuleAtoms(perms)], err |-> Nil]

\* ec2.AuthorizeSecurityGroup: adds the rules; a rule the group already holds
\* is refused
AuthorizeSecurityGroup(gs, g, perms, fail) ==
    IF fail THEN [gs |-> gs, err |-> Ec2Err("RequestLimitExceeded")]
    ELSE IF RuleAtoms(perms) \cap gs[g].perms # {}
    THEN [gs |-> gs, err |-> Ec2Err("InvalidPermission.Duplicate")]
    ELSE [gs |-> [gs EXCEPT ![g].perms = @ \cup RuleAtoms(perms)], err |-> Nil]

----------------------------------------------------------------------------
(* ensureGroup. *)

\* the remote call of one ensureGroup that fails, if it is reached
GroupFails == {"none", "create", "describe", "revoke", "authorize"}

\* a revoke set that is no difference: everything the group has
revokeSetAll(have, want) == have

\* the permissions to revoke: those the group has and the caller does not want
revokeSet(have, want) == {p \in have : p \notin want}

\* the permissions to add: those the caller wants and the group has not
addSet(have, want) == {p \in want : p \notin have}

\* ensureGroup(name, perms) on groups gs; the result carries the groups after
\* it, the calls it issued, the group handle and the error
ensureGroup(gs, name, perms, fail) ==
    With(CreateSecurityGroup(gs, name, fail = "create"), LAMBDA cr :
    With(<<Call("CreateSecurityGroup", name, <<>>, <<>>, cr.err)>>, LAMBDA c1 :
    IF cr.err # Nil /\ ec2ErrCode(cr.err) # "InvalidGroup.Duplicate"
    THEN [gs |-> cr.gs, calls |-> c1, g |-> zeroGroup, err |-> cr.err]
    ELSE
    With(newPermSet(perms), LAMBDA want :
    With(IF cr.err = Nil THEN [err |-> Nil, IPPerms |-> <<>>]
         ELSE SecurityGroups(cr.gs, name, fail = "describe"), LAMBDA ds :
    With(IF cr.err = Nil THEN c1
         ELSE c1 \o <<Call("SecurityGroups", name, <<>>, <<>>, ds.err)>>, LAMBDA c2 :
    IF ds.err # Nil
    THEN [gs |-> cr.gs, calls |-> c2, g |-> zeroGroup, err |-> ds.err]
    ELSE
    With(IF cr.err = Nil THEN {} ELSE newPermSet(ds.IPPerms), LAMBDA have :
    With(revokeSet(have, want), LAMBDA revoke :
    With(IF revoke # {}
         THEN RevokeSecurityGroup(cr.gs, name, ipPerms(revoke), fail = "revoke")
         ELSE [gs |-> cr.gs, err |-> Nil], LAMBDA rv :
    With(IF revoke # {}
         THEN c2 \o <<Call("RevokeSecurityGroup", name, ipPerms(revoke), <<>>, rv.err)>>
         ELSE c2, LAMBDA c3 :
    IF rv.err # Nil
    THEN [gs |-> rv.gs, calls |-> c3, g |-> zeroGroup,
          err |-> Errorf("cannot revoke security group", rv.err)]
    ELSE
    With(addSet(have, want), LAMBDA add :
    With(IF add # {}
         THEN AuthorizeSecurityGroup(rv.gs, name, ipPerms(add), fail = "authorize")
         ELSE [gs |-> rv.gs, err |-> Nil], LAMBDA au :
    With(IF add # {}
         THEN c3 \o <<Call("AuthorizeSecurityGroup", name, ipPerms(add), <<>>, au.err)>>
         ELSE c3, LAMBDA c4 :
    IF au.err # Nil
    THEN [gs |-> au.gs, calls |-> c4, g |-> zeroGroup,
          err |-> Errorf("cannot authorize securityGroup", au.err)]
    ELSE [gs |-> au.gs, calls |-> c4, g |-> name, err |-> Nil]
    ))))))))))))

----------------------------------------------------------------------------
(* SpecGroups: ensureGroup on groups that other tooling may create, change *)
(* or delete between calls.                                                *)

\* the rules other tooling may leave on a group
DriftKeys ==
    { permKey("tcp", zkPort, zkPort, "", "0.0.0.0/0"),
      permKey("tcp", sshPort, sshPort, "", "0.0.0.0/0"),
      permKey("tcp", sshPort, sshPort, "sg-1", ""),
      permKey("udp", zkPort, zkPort, "", "0.0.0.0/0") }

\* the desired rule lists a caller passes to ensureGroup
PermsInputs ==
    { <<>>,
      jujuGroupPerms,
      <<jujuGroupPerms[2], jujuGroupPerms[1]>>,
      <<IPPerm("tcp", sshPort, sshPort,
               <<UserSecurityGroup("sg-1", "other", "999900001111")>>, <<"0.0.0.0/0">>)>>,
      <<IPPerm("tcp", zkPort, zkPort, <<>>, <<>>)>> }

Idle == [name |-> "none", tick |-> 0, err |-> Nil]
NoList == [pc |-> "idle"]
NoCall == [pc |-> "idle"]

InitWorld ==
    /\ bstate = [exists |-> FALSE, ZookeeperInstances |-> <<>>]
    /\ running = {}
    /\ nextId = 0
    /\ groups = [g \in GroupNames |-> NoGroup]
    /\ op = Idle
    /\ calls = <<>>
    /\ lst = NoList
    /\ dns = NoCall
    /\ info = NoCall
    /\ race = NoCall
    /\ att = NoCall
    /\ sw = NoCall
    /\ fs = NoCall

InitGroups == InitWorld

\* a public call of ensureGroup(name, perms)
EnsureGroup ==
    \E name \in {groupName}, perms \in PermsInputs, fail \in GroupFails :
        \E r \in {ensureGroup(groups, name, perms, fail)} :
        /\ groups' = r.gs
        /\ calls' = r.calls
        /\ op' = [name |-> "ensureGroup", tick |-> 1 - op.tick, group |-> name,
                  perms |-> perms, g |-> r.g, err |-> r.err]
        /\ UNCHANGED <<bstate, running, nextId, lst, dns, info, race, att, sw, fs>>

\* other tooling creates the group, changes its rules or deletes it
OtherTooling ==
    \E name \in {groupName}, ex \in BOOLEAN, ps \in SUBSET DriftKeys :
        /\ ex \/ ps = {}
        /\ groups' = [groups EXCEPT ![name] = [exists |-> ex, perms |-> ps]]
        /\ groups' # groups
        /\ op' = [name |-> "otherTooling", tick |-> 1 - op.tick, err |-> Nil]
        /\ calls' = <<>>
        /\ UNCHANGED <<bstate, running, nextId, lst, dns, info, race, att, sw, fs>>

NextGroups == EnsureGroup \/ OtherTooling

SpecGroups == InitGroups /\ [][NextGroups]_vars

----------------------------------------------------------------------------
(* SpecPerms: newPermSet and permSet.ipPerms as functions of their input.   *)
(* A step applies one of them to an input; op holds the input and the      *)
(* result.                                                                  *)

\* the source groups of the inputs: one group id under two names and owners
GroupSources ==
    {UserSecurityGroup("sg-1", "juju-a", "111122223333"),
     UserSecurityGroup("sg-1", "juju-b", "999900001111")}

\* the source addresses of the inputs
Cidrs == {"0.0.0.0/0", "10.0.0.0/8"}

\* the rules with at most n sources of each kind
RulesUpTo(n) ==
    {IPPerm("tcp", port, port, gs, ips) :
        port \in {sshPort, zkPort},
        gs \in SeqsUpTo(GroupSources, n), ips \in SeqsUpTo(Cidrs, n)}

\* the rule lists newPermSet is applied to: one rule with many sources, or
\* several rules with at most one source of each kind
PermLists ==
    {<<r>> : r \in RulesUpTo(MaxSources)} \cup SeqsUpTo(RulesUpTo(1), MaxRules)

\* the permission sets ipPerms is applied to: members with exactly one of
\* groupId and ipAddr
PermKeys ==
    {permKey("tcp", port, port, "sg-1", "") : port \in {sshPort, zkPort}}
    \cup {permKey("tcp", port, port, "", "0.0.0.0/0") : port \in {sshPort, zkPort}}

\* the orders of a sequence (Go ranges over a map in any order)
Orders(s) == {[i \in DOMAIN s |-> s[f[i]]] : f \in Permutations(DOMAIN s)}

InitPerms == InitWorld

NewPermSet ==
    /\ op = Idle
    /\ \E ps \in PermLists :
           op' = [name |-> "newPermSet", ps |-> ps, m |-> newPermSet(ps)]
    /\ UNCHANGED <<bstate, running, nextId, groups, calls, lst, dns, info, race, att, sw, fs>>

\* m.ipPerms(), and newPermSet applied to the slice it returned
IpPerms ==
    /\ op = Idle
    /\ \E m \in SUBSET PermKeys :
       \E ps \in Orders(ipPerms(m)) :
           op' = [name |-> "ipPerms", m |-> m, ps |-> ps, back |-> newPermSet(ps)]
    /\ UNCHANGED <<bstate, running, nextId, groups, calls, lst, dns, info, race, att, sw, fs>>

\* the caller has taken the result
PermsReturn ==
    /\ op # Idle
    /\ op' = Idle
    /\ UNCHANGED <<bstate, running, nextId, groups, calls, lst, dns, info, race, att, sw, fs>>

NextPerms == NewPermSet \/ IpPerms \/ PermsReturn

SpecPerms == InitPerms /\ [][NextPerms]_vars

----------------------------------------------------------------------------
(* SpecAttempt: one retry loop `for a := strategy.start(); a.next(); {...}` *)
(* after another.  Time is counted in ticks of 200ms since start().  A     *)
(* step is start(), one next() call, or one run of the loop body, which     *)
(* takes some time and goes round again or breaks out of the loop.          *)

\* a faulty shortAttempt that does not wait between attempts
shortAttemptNoDelay == [total |-> 25, delay |-> 0]

\* shortAttempt: total 5s, delay 200ms
shortAttempt == [total |-> 25, delay |-> 1]

\* longAttempt: total 3min, delay 5s
longAttempt == [total |-> 900, delay |-> 25]

\* the strategies of the loops: those of the source, and any other with a
\* delay of at least one tick
Strategies ==
    {shortAttempt, longAttempt}
    \cup {[total |-> t, delay |-> d] : t \in 0..MaxTotal, d \in 1..MaxDelay}

\* strategy.start(): the cursor, no time passed, no attempt made
attemptStart(strategy) ==
    [pc |-> "next", total |-> strategy.total, delay |-> strategy.delay,
     now |-> 0, calls |-> 0, attempts |-> 0, slept |-> <<>>]

\* a.next(): the first call answers true at once; a later call answers false
\* at once when the time passed would exceed the total after the delay, and
\* else sleeps the delay and answers true
attemptNext(a) ==
    IF a.calls = 0
    THEN [a EXCEPT !.pc = "body", !.calls = 1, !.attempts = 1, !.slept = <<0>>]
    ELSE IF a.now + a.delay > a.total
    THEN [a EXCEPT !.pc = "ended", !.calls = @ + 1]
    ELSE [a EXCEPT !.pc = "body", !.calls = @ + 1, !.attempts = @ + 1,
                   !.now = @ + a.delay, !.slept = <<a.delay>>]

InitAttempt == InitWorld

\* lines 69, 174, 259, 318: a loop starts
AttemptStart ==
    /\ att.pc \in {"idle", "ended", "broken"}
    /\ \E strategy \in Strategies : att' = attemptStart(strategy)
    /\ UNCHANGED <<bstate, running, nextId, groups, op, calls, lst, dns, info, race, sw, fs>>

\* the loop condition a.next()
AttemptNext ==
    /\ att.pc = "next"
    /\ att.calls < MaxCalls
    /\ att' = attemptNext(att)
    /\ UNCHANGED <<bstate, running, nextId, groups, op, calls, lst, dns, info, race, sw, fs>>

\* lines 70-82, 175-179, 260-263, 319-322: the body of the loop takes its
\* time, and continues or breaks
AttemptBody ==
    /\ att.pc = "body"
    /\ \E d \in 0..MaxBody, break \in BOOLEAN :
           att' = [att EXCEPT !.now = @ + d, !.pc = IF break THEN "broken" ELSE "next"]
    /\ UNCHANGED <<bstate, running, nextId, groups, op, calls, lst, dns, info, race, sw, fs>>

NextAttempt == AttemptStart \/ AttemptNext \/ AttemptBody

SpecAttempt == InitAttempt /\ [][NextAttempt]_vars

\* a loop that has started keeps running: its condition is evaluated and its
\* body runs to its end
SpecAttemptFair ==
    SpecAttempt /\ WF_vars(AttemptNext) /\ WF_vars(AttemptBody)

----------------------------------------------------------------------------
(* Instances and gatherInstances. *)

\* the provider's instance ids
Ids == 1..MaxInst

\* ec2.Instance, as far as the environment reads it
Instance(id, name) == [InstanceId |-> id, DNSName |-> name]

\* an empty slot of the insts slice (a nil environs.Instance)
NilInst == [nil |-> TRUE]

\* a faulty needIds that asks for every id again
needIdsAll(ids, insts) == ids

\* the ids whose slots are still empty, in input order
RECURSIVE needIds(_, _)
needIds(ids, insts) ==
    IF ids = <<>> THEN <<>>
    ELSE (IF Head(insts) = NilInst THEN <<Head(ids)>> ELSE <<>>)
         \o needIds(Tail(ids), Tail(insts))

\* the result of a gather pass that filled n slots
gatherErr(n, ids) == IF n < Len(ids) THEN ErrMissingInstance ELSE Nil

\* a match that takes any record for the one asked for
recordMatchesAny(rec, id) == TRUE

\* line 236: a record of the response is the instance of an id
recordMatches(rec, id) == rec.InstanceId = id

\* gatherInstances(ids, insts) given the provider's answer resp to the list
\* request: resp.err, and resp.Instances, the records of all reservations in
\* response order.  Every matching record is assigned to the slot and
\* counted, so the last one stays.
gatherInstances(ids, insts, resp) ==
    LET need == needIds(ids, insts) IN
    IF Len(need) = 0 THEN [insts |-> insts, err |-> Nil, calls |-> <<>>]
    ELSE
    LET c == <<Call("Instances", groupName, <<>>, need, resp.err)>> IN
    IF resp.err # Nil THEN [insts |-> insts, err |-> resp.err, calls |-> c]
    ELSE
    LET empty == {i \in DOMAIN ids : insts[i] = NilInst}
        hits(i) == {k \in DOMAIN resp.Instances : recordMatches(resp.Instances[k], ids[i])}
        last(i) == CHOOSE k \in hits(i) : \A j \in hits(i) : j <= k
        filled == [i \in DOMAIN ids |->
                      IF i \in empty /\ hits(i) # {} THEN resp.Instances[last(i)]
                      ELSE insts[i]]
        n == Cardinality({ik \in empty \X DOMAIN resp.Instances : ik[2] \in hits(ik[1])})
    IN  [insts |-> filled, err |-> gatherErr(n, ids), calls |-> c]

\* the loop of Instances goes on only while the pass reports missing instances
instancesRetry(err) == ~(err = Nil \/ err # ErrMissingInstance)

\* what Instances returns after its loop: the slice if any slot is filled
instancesResult(insts, err) ==
    IF \E i \in DOMAIN insts : insts[i] # NilInst
    THEN [insts |-> insts, err |-> err]
    ELSE [insts |-> <<>>, err |-> err]

----------------------------------------------------------------------------
(* SpecList: one Instances(ids) call after another; a step is the start of *)
(* a call, one pass of its loop, or the end of its time budget.            *)

\* the answers of the provider to a list request
ListResponses ==
    {[err |-> Ec2Err("RequestLimitExceeded"), Instances |-> <<>>]}
    \cup {[err |-> Nil, Instances |-> r] :
             r \in SeqsUpTo({Instance(i, "") : i \in Ids}, MaxResp)}

InitList == InitWorld

\* lines 250-254: the call starts; an empty id list returns at once
InstancesCall ==
    /\ lst.pc \in {"idle", "done"}
    /\ \E ids \in SeqsUpTo(Ids, MaxIds) :
           lst' = IF Len(ids) = 0
                  THEN [pc |-> "done", ids |-> ids, insts |-> <<>>, err |-> Nil,
                        passes |-> 0, seen |-> {}, listOk |-> TRUE, lastListed |-> FALSE,
                        reqs |-> <<>>, ret |-> [insts |-> <<>>, err |-> Nil]]
                  ELSE [pc |-> "loop", ids |-> ids,
                        insts |-> [i \in DOMAIN ids |-> NilInst], err |-> Nil,
                        passes |-> 0, seen |-> {}, listOk |-> TRUE, lastListed |-> FALSE,
                        reqs |-> <<>>, ret |-> [insts |-> <<>>, err |-> Nil]]
    /\ UNCHANGED <<bstate, running, nextId, groups, op, calls, dns, info, race, att, sw, fs>>

\* lines 259-264 (and 266-272 when the loop breaks): a.next() is true, one
\* gatherInstances pass runs against the provider's answer
GatherPass ==
    /\ lst.pc = "loop"
    /\ lst.passes < MaxPasses
    /\ \E resp \in ListResponses :
       \E r \in {gatherInstances(lst.ids, lst.insts, resp)} :
           LET listed == r.calls # <<>>
               l1 == [lst EXCEPT
                        !.insts = r.insts, !.err = r.err, !.passes = @ + 1,
                        !.seen = IF listed /\ resp.err = Nil
                                 THEN @ \cup {resp.Instances[k].InstanceId :
                                                 k \in DOMAIN resp.Instances}
                                 ELSE @,
                        !.listOk = @ /\ (listed => resp.err = Nil),
                        !.lastListed = listed /\ resp.err = Nil,
                        !.reqs = @ \o [k \in DOMAIN r.calls |-> r.calls[k].ids]]
           IN  lst' = IF instancesRetry(r.err) THEN l1
                      ELSE [l1 EXCEPT !.pc = "done",
                                      !.ret = instancesResult(r.insts, r.err)]
    /\ UNCHANGED <<bstate, running, nextId, groups, op, calls, dns, info, race, att, sw, fs>>

\* the time budget of shortAttempt ends: a.next() is false, lines 266-272
AttemptEnds ==
    /\ lst.pc = "loop"
    /\ lst.passes >= 1
    /\ lst' = [lst EXCEPT !.pc = "done", !.ret = instancesResult(lst.insts, lst.err)]
    /\ UNCHANGED <<bstate, running, nextId, groups, op, calls, dns, info, race, att, sw, fs>>

NextList == InstancesCall \/ GatherPass \/ AttemptEnds

SpecList == InitList /\ [][NextList]_vars

----------------------------------------------------------------------------
(* The blob store holding the bootstrap state, and the provider's side of  *)
(* instances.  w is the world: [bstate, running, nextId, groups].          *)

World == [bstate |-> bstate, running |-> running, nextId |-> nextId, groups |-> groups]

NoState == [exists |-> FALSE, ZookeeperInstances |-> <<>>]

\* the ways a load of the state object can go wrong: not at all, with an
\* *s3.Error that is not 404, with an error that is no *s3.Error
LoadFaults == {"none", "s3", "other"}

\* loadState: the stored state; *s3.Error 404 when there is none
loadState(w, fault) ==
    IF fault = "s3" THEN [st |-> NoState, err |-> S3Err(403)]
    ELSE IF fault = "other" THEN [st |-> NoState, err |-> OtherErr("transport")]
    ELSE IF w.bstate.exists THEN [st |-> w.bstate, err |-> Nil]
    ELSE [st |-> NoState, err |-> S3Err(404)]

\* saveState: writes the object, replacing what is there
saveState(w, st, fail) ==
    IF fail THEN [w |-> w, err |-> S3Err(500)]
    ELSE [w |-> [w EXCEPT !.bstate = [exists |-> TRUE,
                                      ZookeeperInstances |-> st.ZookeeperInstances]],
          err |-> Nil]

\* deleteState: removes the object
deleteState(w, fail) ==
    IF fail THEN [w |-> w, err |-> S3Err(500)]
    ELSE [w |-> [w EXCEPT !.bstate = NoState], err |-> Nil]

\* the outcomes of ec2.RunInstances: an error, or a response with 0, 1 or 2
\* instances
RunOutcomes == {"run0", "run1", "run2", "InvalidGroup.NotFound", "InstanceLimitExceeded"}
runCount(o) == IF o = "run0" THEN 0 ELSE IF o = "run1" THEN 1 ELSE IF o = "run2" THEN 2 ELSE -1

RunInstances(w, outcome) ==
    IF runCount(outcome) < 0
    THEN [w |-> w, err |-> Ec2Err(outcome), Instances |-> <<>>]
    ELSE LET k == runCount(outcome) IN
         [w |-> [w EXCEPT !.running = @ \cup (w.nextId + 1 .. w.nextId + k),
                          !.nextId = @ + k],
          err |-> Nil,
          Instances |-> [j \in 1..k |-> Instance(w.nextId + j, "")]]

\* the outcomes of ec2.TerminateInstances
TermOutcomes == {"ok", "InvalidInstanceID.NotFound", "InternalError"}

TerminateInstances(w, ids, outcome) ==
    IF outcome = "ok"
    THEN [w |-> [w EXCEPT !.running = @ \ Range(ids)], err |-> Nil]
    ELSE [w |-> w, err |-> Ec2Err(outcome)]

----------------------------------------------------------------------------
(* startInstance and terminateInstances.  A retry loop is given the        *)
(* outcomes of its attempts; their number is the number of attempts the    *)
(* time budget of shortAttempt allows, at least one.                       *)

\* setUpGroups: the environment's group, then the machine's group; pre names
\* the call that fails: call pre.call of ensureGroup number pre.n
setUpGroups(gs, machineId, pre) ==
    With(ensureGroup(gs, groupName, jujuGroupPerms,
                     IF pre.n = 1 THEN pre.call ELSE "none"), LAMBDA e1 :
    IF e1.err # Nil
    THEN [gs |-> e1.gs, calls |-> e1.calls, groups |-> <<>>, err |-> e1.err]
    ELSE
    With(ensureGroup(e1.gs, machineGroupName(machineId), <<>>,
                     IF pre.n = 2 THEN pre.call ELSE "none"), LAMBDA e2 :
    IF e2.err # Nil
    THEN [gs |-> e2.gs, calls |-> e1.calls \o e2.calls, groups |-> <<>>, err |-> e2.err]
    ELSE [gs |-> e2.gs, calls |-> e1.calls \o e2.calls, groups |-> <<e1.g, e2.g>>,
          err |-> Nil]
    ))

\* a run loop that goes on after any error
runRetryAnyError(err) == err # Nil

\* the run loop goes on only while the error is "security group not found"
runRetry(err) == ~(err = Nil \/ ec2ErrCode(err) # "InvalidGroup.NotFound")

\* lines 174-186: one RunInstances per attempt
RECURSIVE runAttempts(_, _, _)
runAttempts(w, sgroups, outs) ==
    With(RunInstances(w, Head(outs)), LAMBDA r :
    With(<<Call("RunInstances", sgroups[1], <<>>,
                [j \in DOMAIN r.Instances |-> r.Instances[j].InstanceId], r.err)>>,
         LAMBDA c :
    IF ~runRetry(r.err) \/ Tail(outs) = <<>>
    THEN [w |-> r.w, Instances |-> r.Instances, err |-> r.err, calls |-> c]
    ELSE With(runAttempts(r.w, sgroups, Tail(outs)), LAMBDA rest :
              [rest EXCEPT !.calls = c \o @])
    ))

\* a startInstance that refuses only an empty response
wrongCountOnlyNone(insts) == Len(insts) = 0

\* lines 190-192: the response must hold exactly one instance
wrongCount(insts) == Len(insts) # 1

\* startInstance(machineId, _, master); o.pre names the preparation that
\* fails, o.run the outcomes of the run attempts; the image lookup is the
\* first call of the log
startInstance(w, machineId, o) ==
    LET im(err) == <<Call("FindImageSpec", "", <<>>, <<>>, err)>> IN
    IF o.pre.call = "image"
    THEN [w |-> w, calls |-> im(OtherErr("no image")), inst |-> NilInst,
          err |-> Errorf("cannot find image", OtherErr("no image"))]
    ELSE
    With(setUpGroups(w.groups, machineId, o.pre), LAMBDA sg :
    IF sg.err # Nil
    THEN [w |-> [w EXCEPT !.groups = sg.gs], calls |-> im(Nil) \o sg.calls,
          inst |-> NilInst, err |-> Errorf("cannot set up groups", sg.err)]
    ELSE
    With(runAttempts([w EXCEPT !.groups = sg.gs], sg.groups, o.run), LAMBDA ra :
    With(im(Nil) \o sg.calls \o ra.calls, LAMBDA cs :
    IF ra.err # Nil
    THEN [w |-> ra.w, calls |-> cs, inst |-> NilInst,
          err |-> Errorf("cannot run instances", ra.err)]
    ELSE IF wrongCount(ra.Instances)
    THEN [w |-> ra.w, calls |-> cs, inst |-> NilInst,
          err |-> Errorf("expected 1 started instance", Nil)]
    ELSE [w |-> ra.w, calls |-> cs, inst |-> ra.Instances[1], err |-> Nil]
    )))

\* the bulk loop goes on only while the error is "instance id not found"
terminateRetry(err) == ~(err = Nil \/ ec2ErrCode(err) # "InvalidInstanceID.NotFound")

\* lines 318-323: one bulk TerminateInstances per attempt; returned tells
\* whether the loop returned or ran out of attempts
RECURSIVE bulkAttempts(_, _, _)
bulkAttempts(w, ids, outs) ==
    With(TerminateInstances(w, ids, Head(outs)), LAMBDA r :
    With(<<Call("TerminateInstances", "", <<>>, ids, r.err)>>, LAMBDA c :
    IF ~terminateRetry(r.err)
    THEN [w |-> r.w, err |-> r.err, calls |-> c, returned |-> TRUE]
    ELSE IF Tail(outs) = <<>>
    THEN [w |-> r.w, err |-> r.err, calls |-> c, returned |-> FALSE]
    ELSE With(bulkAttempts(r.w, ids, Tail(outs)), LAMBDA rest :
              [rest EXCEPT !.calls = c \o @])
    ))

\* a single call whose "not found" is kept as an error
ignoreNothing(err) == err

\* lines 333-335: "instance id not found" on a single call is no error
ignoreNotFound(err) == IF ec2ErrCode(err) = "InvalidInstanceID.NotFound" THEN Nil ELSE err

\* lines 327-340: the ids one by one, not-found ignored, the first other
\* error kept
RECURSIVE eachTerminate(_, _, _, _)
eachTerminate(w, ids, outs, firstErr) ==
    IF ids = <<>> THEN [w |-> w, err |-> firstErr, calls |-> <<>>]
    ELSE
    With(TerminateInstances(w, <<Head(ids)>>, Head(outs)), LAMBDA r :
    With(ignoreNotFound(r.err), LAMBDA err :
    With(eachTerminate(r.w, Tail(ids), Tail(outs),
                       IF err # Nil /\ firstErr = Nil THEN err ELSE firstErr),
         LAMBDA rest :
    [rest EXCEPT !.calls =
        <<Call("TerminateInstances", "", <<>>, <<Head(ids)>>, r.err)>> \o @]
    )))

\* a terminateInstances that takes no list for empty
terminateNothingNever(ids) == FALSE

\* lines 314-316: an empty list is terminated without a call
terminateNothing(ids) == Len(ids) = 0

\* terminateInstances(ids); o.bulk are the outcomes of the bulk attempts,
\* o.each the outcome of the single call for each id
terminateInstances(w, ids, o) ==
    IF terminateNothing(ids) THEN [w |-> w, err |-> Nil, calls |-> <<>>]
    ELSE
    With(bulkAttempts(w, ids, o.bulk), LAMBDA b :
    IF b.returned THEN [w |-> b.w, err |-> b.err, calls |-> b.calls]
    ELSE IF Len(ids) = 1 THEN [w |-> b.w, err |-> b.err, calls |-> b.calls]
    ELSE With(eachTerminate(b.w, ids, o.each, Nil), LAMBDA e :
              [w |-> e.w, err |-> e.err, calls |-> b.calls \o e.calls])
    )

\* StopInstances(insts)
StopInstances(w, insts, o) ==
    With([i \in DOMAIN insts |-> insts[i].InstanceId], LAMBDA ids :
    With(terminateInstances(w, ids, o), LAMBDA t :
    [t EXCEPT !.calls = <<Call("StopInstances", "", <<>>, ids, t.err)>> \o @]
    ))

----------------------------------------------------------------------------
(* Bootstrap and Destroy. *)

\* a Bootstrap that never takes the state for present
alreadyBootstrappedNever(err) == FALSE

\* lines 108-110: a state that loads means the environment is bootstrapped
alreadyBootstrapped(err) == err = Nil

\* lines 111-113: a load error that is an *s3.Error with a status other than
\* 404 aborts Bootstrap
loadErrAborts(err) == err.kind = "s3" /\ err.status # 404

\* a faulty newBootstrapState: no instance is recorded
newBootstrapStateEmpty(inst) == [exists |-> TRUE, ZookeeperInstances |-> <<>>]

\* lines 118-120: the state Bootstrap saves
newBootstrapState(inst) == [exists |-> TRUE, ZookeeperInstances |-> <<inst.InstanceId>>]

\* a faulty saveFailedResult: a failed cleanup hides the save error
saveFailedResultStop(saveErr, stopErr) == IF stopErr # Nil THEN stopErr ELSE saveErr

\* lines 121-126: what Bootstrap returns when the save failed and the
\* instance was stopped with stopErr
saveFailedResult(saveErr, stopErr) == saveErr

\* Bootstrap(); o.load, o.start, o.saveFails and o.stop are the outcomes of
\* its remote calls
environBootstrap(w, o) ==
    With(loadState(w, o.load), LAMBDA ld :
    With(<<Call("loadState", "", <<>>, <<>>, ld.err)>>, LAMBDA c1 :
    IF alreadyBootstrapped(ld.err)
    THEN [w |-> w, calls |-> c1, inst |-> NilInst,
          err |-> OtherErr("environment is already bootstrapped")]
    ELSE IF loadErrAborts(ld.err)
    THEN [w |-> w, calls |-> c1, inst |-> NilInst, err |-> ld.err]
    ELSE
    With(startInstance(w, 0, o.start), LAMBDA si :
    IF si.err # Nil
    THEN [w |-> si.w, calls |-> c1 \o si.calls, inst |-> NilInst,
          err |-> Errorf("cannot start bootstrap instance", si.err)]
    ELSE
    With(newBootstrapState(si.inst), LAMBDA st :
    With(saveState(si.w, st, o.saveFails), LAMBDA sv :
    With(c1 \o si.calls
            \o <<Call("saveState", "", <<>>, st.ZookeeperInstances, sv.err)>>,
         LAMBDA c2 :
    IF sv.err # Nil
    THEN With(StopInstances(sv.w, <<si.inst>>, o.stop), LAMBDA sp :
              [w |-> sp.w, calls |-> c2 \o sp.calls, inst |-> si.inst,
               err |-> saveFailedResult(sv.err, sp.err)])
    ELSE [w |-> sv.w, calls |-> c2, inst |-> si.inst, err |-> Nil]
    ))))))

\* a faulty destroyIds: the instances the caller passed are forgotten
destroyIdsListedOnly(listed, known) == listed

\* lines 284-301: the listed ids, then the known ids not yet among them
RECURSIVE destroyIds(_, _)
destroyIds(listed, known) ==
    IF known = <<>> THEN listed
    ELSE IF Head(known) \in Range(listed) THEN destroyIds(listed, Tail(known))
    ELSE destroyIds(Append(listed, Head(known)), Tail(known))

\* a faulty destroyDeletes: the state is deleted whatever the termination
destroyDeletesAlways(termErr) == TRUE

\* lines 302-306: the state is deleted only when the termination succeeded
destroyDeletes(termErr) == termErr = Nil

\* Destroy(insts); o.listFails and o.list are the outcome of the list call,
\* o.term of the termination, o.deleteFails of the delete.  The log also
\* holds the call of terminateInstances itself, before the remote calls it
\* issued (as it holds the call of StopInstances in Bootstrap).
environDestroy(w, insts, o) ==
    LET tc(ids, t) == <<Call("terminateInstances", "", <<>>, ids, t.err)>> \o t.calls IN
    With(IF o.listFails THEN Ec2Err("RequestLimitExceeded") ELSE Nil, LAMBDA lerr :
    With([i \in DOMAIN o.list |-> o.list[i].InstanceId], LAMBDA listed :
    With(<<Call("Instances", groupName, <<>>, listed, lerr)>>, LAMBDA c1 :
    IF lerr # Nil
    THEN [w |-> w, calls |-> c1, err |-> Errorf("cannot get instances", lerr)]
    ELSE
    With(destroyIds(listed, [i \in DOMAIN insts |-> insts[i].InstanceId]), LAMBDA ids :
    With(terminateInstances(w, ids, o.term), LAMBDA t :
    IF ~destroyDeletes(t.err)
    THEN [w |-> t.w, calls |-> c1 \o tc(ids, t), err |-> t.err]
    ELSE
    With(deleteState(t.w, o.deleteFails), LAMBDA d :
    [w |-> d.w, err |-> d.err,
     calls |-> c1 \o tc(ids, t) \o <<Call("deleteState", "", <<>>, <<>>, d.err)>>]
    ))))))

----------------------------------------------------------------------------
(* Spec: the public operations on one environment, one after another.      *)
(* The outcomes of the remote calls of an operation are chosen with it;    *)
(* the outcome of a call that is not reached is not varied.  op and calls  *)
(* hold the operation and its calls until the caller has taken the result. *)

Last(s) == s[Len(s)]

Repeat(x, k) == [i \in 1..k |-> x]

\* outcomes of the run attempts the budget allows, at least one (the loop
\* uses those it reaches); room bounds the instances the provider still starts
RunSeqs(room) ==
    {r \in SeqsUpTo({x \in RunOutcomes : runCount(x) <= room}, MaxAttempts) : r # <<>>}

DefaultRun(room) == IF room >= 1 THEN <<"run1">> ELSE <<"InstanceLimitExceeded">>

StartFaults ==
    {[n |-> 0, call |-> "none"], [n |-> 0, call |-> "image"]}
    \cup {[n |-> k, call |-> c] : k \in {1, 2}, c \in GroupFails \ {"none"}}

StartOracles(room) ==
    UNION {{[pre |-> p, run |-> r] :
               r \in (IF p.call = "none" THEN RunSeqs(room) ELSE {DefaultRun(room)})}
           : p \in StartFaults}

\* outcomes of the bulk terminate attempts the loop makes: at least one, at
\* most as many as the budget allows, all but the last "instance id not found"
BulkSeqs ==
    {b \in SeqsUpTo(TermOutcomes, MaxAttempts) :
        /\ b # <<>>
        /\ \A i \in 1..(Len(b) - 1) : b[i] = "InvalidInstanceID.NotFound"}

\* outcomes of a termination of n ids; the single calls are reached only
\* when every bulk attempt reported "instance id not found"
TermOracles(n) ==
    UNION {{[bulk |-> b, each |-> e] :
               e \in (IF n > 1 /\ \A i \in DOMAIN b : b[i] = "InvalidInstanceID.NotFound"
                      THEN [1..n -> TermOutcomes]
                      ELSE {Repeat("ok", n)})}
           : b \in BulkSeqs}

DefaultTerm == [bulk |-> <<"ok">>, each |-> <<>>]

\* the instance lists a caller may hold: instances the provider once started
KnownLists ==
    {k \in SeqsUpTo({Instance(i, "") : i \in 1..nextId}, MaxKnown) :
        \A a, b \in DOMAIN k : a # b => k[a] # k[b]}

\* the instance lists a caller may stop: instances the provider once started
StopLists ==
    {k \in SeqsUpTo({Instance(i, "") : i \in 1..nextId}, MaxIds) :
        \A a, b \in DOMAIN k : a # b => k[a] # k[b]}

\* the answers to the list request of Destroy: any of the running instances
\* (the listing may lag behind)
Listings == {[i \in DOMAIN SetToSeq(S) |-> Instance(SetToSeq(S)[i], "")] : S \in SUBSET running}

Init == InitWorld

SetWorld(w) ==
    /\ bstate' = w.bstate
    /\ running' = w.running
    /\ nextId' = w.nextId
    /\ groups' = w.groups

\* the caller has taken the result of the last operation
Return ==
    /\ op # Idle
    /\ op' = Idle
    /\ calls' = <<>>
    /\ UNCHANGED <<bstate, running, nextId, groups, lst, dns, info, race, att, sw, fs>>

Bootstrap ==
    /\ op = Idle
    /\ \E lf \in LoadFaults, so \in StartOracles(MaxInst - nextId) :
       \E sf \in (IF Last(so.run) = "run1" THEN BOOLEAN ELSE {FALSE}) :
       \E to \in (IF sf THEN TermOracles(1) ELSE {DefaultTerm}) :
       \E r \in {environBootstrap(World,
                    [load |-> lf, start |-> so, saveFails |-> sf, stop |-> to])} :
           /\ SetWorld(r.w)
           /\ calls' = r.calls
           /\ op' = [name |-> "Bootstrap", err |-> r.err, inst |-> r.inst,
                     known |-> <<>>]
           /\ UNCHANGED <<lst, dns, info, race, att, sw, fs>>

StartInstance ==
    /\ op = Idle
    /\ \E machineId \in MachineIds, so \in StartOracles(MaxInst - nextId) :
       \E r \in {startInstance(World, machineId, so)} :
           /\ SetWorld(r.w)
           /\ calls' = r.calls
           /\ op' = [name |-> "StartInstance", err |-> r.err, inst |-> r.inst,
                     known |-> <<>>]
           /\ UNCHANGED <<lst, dns, info, race, att, sw, fs>>

Destroy ==
    /\ op = Idle
    /\ \E known \in KnownLists, lf \in BOOLEAN :
       \E list \in (IF lf THEN {<<>>} ELSE Listings) :
       \E to \in TermOracles(Cardinality(Range(list) \cup Range(known))), df \in BOOLEAN :
       \E r \in {environDestroy(World, known,
                    [listFails |-> lf, list |-> list, term |-> to, deleteFails |-> df])} :
           /\ SetWorld(r.w)
           /\ calls' = r.calls
           /\ op' = [name |-> "Destroy", err |-> r.err, inst |-> NilInst,
                     known |-> known]
           /\ UNCHANGED <<lst, dns, info, race, att, sw, fs>>

\* StopInstances(insts), called by the user of the environment
Stop ==
    /\ op = Idle
    /\ \E insts \in StopLists :
       \E to \in TermOracles(Len(insts)) :
       \E r \in {StopInstances(World, insts, to)} :
           /\ SetWorld(r.w)
           /\ calls' = r.calls
           /\ op' = [name |-> "StopInstances", err |-> r.err, inst |-> NilInst,
                     known |-> insts]
           /\ UNCHANGED <<lst, dns, info, race, att, sw, fs>>

----------------------------------------------------------------------------
(* SpecInfo: DNSName and StateInfo.  A step is the start of a call, one     *)
(* poll of DNSName's loop, the end of its time budget, or StateInfo taking  *)
(* the address of one instance.  A poll is a whole Instances call, given    *)
(* the provider's answers to the passes its short budget allows.            *)

\* lines 259-264 as a function of the answers of the provider
RECURSIVE instancesLoop(_, _, _)
instancesLoop(ids, insts, resps) ==
    With(gatherInstances(ids, insts, Head(resps)), LAMBDA r :
    IF ~instancesRetry(r.err) \/ Tail(resps) = <<>>
    THEN [insts |-> r.insts, err |-> r.err, calls |-> r.calls]
    ELSE With(instancesLoop(ids, r.insts, Tail(resps)), LAMBDA rest :
              [rest EXCEPT !.calls = r.calls \o @])
    )

\* Instances(ids)
environInstances(ids, resps) ==
    IF Len(ids) = 0 THEN [insts |-> <<>>, err |-> Nil, calls |-> <<>>]
    ELSE With(instancesLoop(ids, [i \in DOMAIN ids |-> NilInst], resps), LAMBDA l :
              [insts |-> instancesResult(l.insts, l.err).insts, err |-> l.err,
               calls |-> l.calls])

\* the addresses the provider gives instances
Addrs == {"a", "b"}

\* the ids of the instances of SpecInfo
InfoIds == {1, 2}

\* the answers of the provider to a list request that names ids: an error,
\* no record, or the record of one of the ids, with or without an address
InfoResponses(ids) ==
    {[err |-> Ec2Err("RequestLimitExceeded"), Instances |-> <<>>]}
    \cup {[err |-> Nil, Instances |-> r] :
             r \in SeqsUpTo({Instance(i, d) : i \in Range(ids), d \in {""} \cup Addrs}, 1)}

\* the answers to the passes of one Instances call
InfoPasses(ids) == {r \in SeqsUpTo(InfoResponses(ids), MaxAttempts) : r # <<>>}

\* fmt.Sprintf(":%d", zkPort)
zkPortSuffix == ":" \o ToString(zkPort)

TimedOutErr == OtherErr("timed out trying to get DNS address")
NilDerefPanic == OtherErr("panic: nil pointer dereference")

\* a DNSName that never trusts the address the instance carries
dnsCachedNever(inst) == FALSE

\* line 64: the instance carries an address
dnsCached(inst) == inst.DNSName # ""

\* lines 84-90: what DNSName returns when its loop has ended
dnsResult(inst, err) ==
    IF err # Nil THEN [addr |-> "", err |-> Errorf("cannot find instance", err)]
    ELSE IF inst.DNSName = "" THEN [addr |-> "", err |-> TimedOutErr]
    ELSE [addr |-> inst.DNSName, err |-> Nil]

\* lines 63-68: DNSName is called on inst by who; d is the record of the
\* last call, of which the instance the user holds is kept
dnsStart(d, inst, who) ==
    LET c == [pc |-> "loop", who |-> who, tick |-> 1 - d.tick, inst |-> inst,
              held |-> d.held, start |-> "", err |-> Nil, polls |-> 0, reqs |-> 0,
              seen |-> {}, found |-> FALSE, gone |-> FALSE, ended |-> FALSE,
              ret |-> [addr |-> "", err |-> Nil]]
    IN  IF inst = NilInst
        THEN [c EXCEPT !.pc = "done", !.ret = [addr |-> "", err |-> NilDerefPanic]]
        ELSE IF dnsCached(inst)
        THEN [c EXCEPT !.pc = "done", !.start = inst.DNSName,
                       !.ret = [addr |-> inst.DNSName, err |-> Nil]]
        ELSE c

\* the call returns: the user keeps the instance as the call left it
dnsDone(d) ==
    [d EXCEPT !.pc = "done", !.ret = dnsResult(d.inst, d.err),
              !.held = IF d.who = "user" THEN d.inst ELSE @]

\* lines 69-83: one poll, r being what Instances returned
dnsPoll(d, r) ==
    LET d1 == [d EXCEPT !.polls = @ + 1, !.reqs = @ + Len(r.calls), !.err = r.err] IN
    IF r.err = ErrMissingInstance
    THEN [d1 EXCEPT !.gone = @ \/ d.found]
    ELSE IF r.err # Nil
    THEN dnsDone(d1)
    ELSE LET freshInst == r.insts[1]
             d2 == [d1 EXCEPT !.found = TRUE] IN
         IF freshInst.DNSName # ""
         THEN dnsDone([d2 EXCEPT !.inst.DNSName = freshInst.DNSName,
                                 !.seen = @ \cup {freshInst.DNSName}])
         ELSE d2

\* line 151: the address StateInfo gives for an instance
infoAddrBare(addr) == addr

infoAddr(addr) == addr \o zkPortSuffix

\* lines 146-153: StateInfo goes on with instance i of its list, or returns
infoNext(f, i) ==
    IF i > Len(f.insts)
    THEN [f EXCEPT !.pc = "done", !.ret = [addrs |-> f.addrs, err |-> Nil]]
    ELSE [f EXCEPT !.pc = "resolve", !.i = i]

\* the states Bootstrap leaves: none, or the id of its one instance
InitInfo ==
    /\ bstate \in {NoState} \cup {[exists |-> TRUE, ZookeeperInstances |-> <<i>>] : i \in InfoIds}
    /\ running = InfoIds
    /\ nextId = Cardinality(InfoIds)
    /\ groups = [g \in GroupNames |-> NoGroup]
    /\ op = Idle
    /\ calls = <<>>
    /\ lst = NoList
    /\ dns = [pc |-> "idle", tick |-> 0, held |-> Instance(1, "")]
    /\ info = NoCall
    /\ race = NoCall
    /\ att = NoCall
    /\ sw = NoCall
    /\ fs = NoCall

\* the user calls DNSName on the instance it holds
DNSNameCall ==
    /\ dns.pc \in {"idle", "done"}
    /\ info.pc \in {"idle", "done"}
    /\ dns' = dnsStart(dns, dns.held, "user")
    /\ UNCHANGED <<bstate, running, nextId, groups, op, calls, lst, info, race, att, sw, fs>>

\* a.next() is true: one poll of the loop
DNSPoll ==
    /\ dns.pc = "loop"
    /\ dns.polls < MaxPolls
    /\ \E resps \in InfoPasses(<<dns.inst.InstanceId>>) :
       \E r \in {environInstances(<<dns.inst.InstanceId>>, resps)} :
           dns' = dnsPoll(dns, r)
    /\ UNCHANGED <<bstate, running, nextId, groups, op, calls, lst, info, race, att, sw, fs>>

\* the time budget of longAttempt ends: a.next() is false
DNSBudgetEnds ==
    /\ dns.pc = "loop"
    /\ dns.polls >= 1
    /\ dns' = dnsDone([dns EXCEPT !.ended = TRUE])
    /\ UNCHANGED <<bstate, running, nextId, groups, op, calls, lst, info, race, att, sw, fs>>

\* lines 137-147: StateInfo loads the state, lists its instances and asks
\* the first for its address
StateInfoCall ==
    /\ info.pc \in {"idle", "done"}
    /\ dns.pc \in {"idle", "done"}
    /\ \E lf \in LoadFaults :
       \E ld \in {loadState(World, lf)} :
       \E resps \in (IF ld.err = Nil /\ Len(ld.st.ZookeeperInstances) > 0
                     THEN InfoPasses(ld.st.ZookeeperInstances)
                     ELSE {<<[err |-> Nil, Instances |-> <<>>]>>}) :
       \E r \in {IF ld.err = Nil THEN environInstances(ld.st.ZookeeperInstances, resps)
                 ELSE [insts |-> <<>>, err |-> Nil, calls |-> <<>>]} :
           LET f == [pc |-> "resolve", ids |-> ld.st.ZookeeperInstances,
                     loadErr |-> ld.err, listErr |-> r.err, insts |-> r.insts,
                     i |-> 1, addrs |-> <<>>, res |-> <<>>,
                     ret |-> [addrs |-> <<>>, err |-> Nil]]
           IN  IF ld.err # Nil
               THEN /\ info' = [f EXCEPT !.pc = "done", !.ret.err = ld.err]
                    /\ dns' = dns
               ELSE IF r.err # Nil
               THEN /\ info' = [f EXCEPT !.pc = "done", !.ret.err = r.err]
                    /\ dns' = dns
               ELSE /\ info' = infoNext(f, 1)
                    /\ dns' = IF Len(r.insts) >= 1
                              THEN dnsStart(dns, r.insts[1], "StateInfo") ELSE dns
    /\ UNCHANGED <<bstate, running, nextId, groups, op, calls, lst, race, att, sw, fs>>

\* lines 147-153: DNSName has returned to StateInfo
StateInfoResolved ==
    /\ info.pc = "resolve"
    /\ dns.pc = "done" /\ dns.who = "StateInfo"
    /\ LET f == [info EXCEPT !.res = Append(@, dns.ret)] IN
       IF dns.ret.err # Nil
       THEN /\ info' = [f EXCEPT !.pc = "done",
                           !.ret = [addrs |-> <<>>,
                                    err |-> Errorf("cannot get zookeeper instance DNS address",
                                                   dns.ret.err)]]
            /\ dns' = dns
       ELSE LET g == infoNext([f EXCEPT !.addrs = Append(@, infoAddr(dns.ret.addr))],
                              info.i + 1) IN
            /\ info' = g
            /\ dns' = IF g.pc = "resolve"
                      THEN dnsStart(dns, info.insts[g.i], "StateInfo") ELSE dns
    /\ UNCHANGED <<bstate, running, nextId, groups, op, calls, lst, race, att, sw, fs>>

NextInfo == DNSNameCall \/ DNSPoll \/ DNSBudgetEnds \/ StateInfoCall \/ StateInfoResolved

SpecInfo == InitInfo /\ [][NextInfo]_vars

----------------------------------------------------------------------------
(* SpecSwitch: the switch command run against the stubs of its test suite   *)
(* (part_001): a client store of controllers and their models, the current  *)
(* controller, and the log of the stub calls of the last run.  A target is  *)
(* a name, qualified by a controller or not.  The tests run the command     *)
(* with a target, with JUJU_MODEL unset and a ReadCurrentController that    *)
(* succeeds, and qualify only the names of models the store knows of a      *)
(* controller it knows; so do the runs of the model.                        *)

ControllerNames == {"old", "new"}
ModelNames == {"mymodel", "unknown"}

Target(ctrl, name) == [ctrl |-> ctrl, name |-> name]

StubCall(api, arg) == [api |-> api, arg |-> arg]

RefreshErr == OtherErr("not very refreshing")
WriteErr == OtherErr("cannot write")
UnknownTargetErr == OtherErr("is not the name of a model or controller")

\* lines 47-50
readCurrentController(s) ==
    [s |-> [s EXCEPT !.calls = Append(@, StubCall("ReadCurrentController", ""))],
     val |-> s.currentController]

\* a faulty stub that records the call and forgets the name
writeCurrentControllerForgets(s, current, err) ==
    [s |-> [s EXCEPT !.calls = Append(@, StubCall("WriteCurrentController", current))],
     err |-> err]

\* lines 52-59
writeCurrentController(s, current, err) ==
    LET s1 == [s EXCEPT !.calls = Append(@, StubCall("WriteCurrentController", current))]
    IN  IF err # Nil THEN [s |-> s1, err |-> err]
        ELSE [s |-> [s1 EXCEPT !.currentController = current], err |-> Nil]

\* lines 40-45: onRefresh are the models the refresh brings to the store
refreshModels(s, controllerName, onRefresh, err) ==
    [s |-> [s EXCEPT !.calls = Append(@, StubCall("RefreshModels", controllerName)),
                     !.models[controllerName] = @ \cup onRefresh],
     err |-> err]

\* lines 212-214
addController(s, name) == [s EXCEPT !.controllers = @ \cup {name}]

\* the end of a run: the store as it is left, and the error
switchDone(s, err) == [s EXCEPT !.pc = "done", !.err = err]

\* the run goes on with the model name of controller ctrl: the model becomes
\* the current model of ctrl, and ctrl the current controller if it is not
switchToModel(s, cur, ctrl, name, o) ==
    With([s EXCEPT !.currentModel[ctrl] = name], LAMBDA s1 :
    IF ctrl = cur THEN switchDone(s1, Nil)
    ELSE With(writeCurrentController(s1, ctrl, o.writeErr), LAMBDA w :
              switchDone(w.s, w.err)))

\* switchCommand.Run with target t; o names the models a refresh brings and
\* the errors of the stubs
switchRun(s0, t, o) ==
    With(readCurrentController([s0 EXCEPT !.calls = <<>>, !.target = t,
                                          !.before = s0.currentController,
                                          !.knew = s0.models]), LAMBDA r :
    With(r.val, LAMBDA cur :
    IF t.ctrl = "" /\ t.name \in r.s.controllers
    THEN IF t.name = cur THEN switchDone(r.s, Nil)
         ELSE With(writeCurrentController(r.s, t.name, o.writeErr), LAMBDA w :
                   switchDone(w.s, w.err))
    ELSE IF t.ctrl = "" /\ cur = ""
    THEN switchDone(r.s, UnknownTargetErr)
    ELSE
    With(IF t.ctrl # "" THEN t.ctrl ELSE cur, LAMBDA ctrl :
    IF t.name \in r.s.models[ctrl]
    THEN switchToModel(r.s, cur, ctrl, t.name, o)
    ELSE
    With(refreshModels(r.s, ctrl, o.onRefresh, o.refreshErr), LAMBDA f :
    IF f.err # Nil
    THEN switchDone(f.s, Errorf("refreshing models cache", f.err))
    ELSE IF t.name \notin f.s.models[ctrl]
    THEN switchDone(f.s, UnknownTargetErr)
    ELSE switchToModel(f.s, cur, ctrl, t.name, o)
    ))))

\* the targets of a run on store s
Targets(s) ==
    {Target("", n) : n \in ControllerNames \cup ModelNames}
    \cup {Target(c, n) : c \in ControllerNames, n \in ModelNames}

\* lines 32-38 and the set-up of the tests: a store, a current controller
InitSwitch ==
    /\ bstate = NoState
    /\ running = {}
    /\ nextId = 0
    /\ groups = [g \in GroupNames |-> NoGroup]
    /\ op = Idle
    /\ calls = <<>>
    /\ lst = NoList
    /\ dns = NoCall
    /\ info = NoCall
    /\ race = NoCall
    /\ att = NoCall
    /\ fs = NoCall
    /\ \E cs \in SUBSET ControllerNames, cur \in {""} \cup ControllerNames :
           sw = [pc |-> "idle", controllers |-> cs, currentController |-> cur,
                 models |-> [c \in ControllerNames |-> {}],
                 currentModel |-> [c \in ControllerNames |-> ""],
                 calls |-> <<>>, err |-> Nil, target |-> Target("", ""),
                 before |-> "", knew |-> [c \in ControllerNames |-> {}]]

\* the test adds a controller to the store
AddController ==
    /\ \E name \in ControllerNames :
           /\ name \notin sw.controllers
           /\ sw' = [addController(sw, name) EXCEPT !.pc = "idle"]
    /\ UNCHANGED <<bstate, running, nextId, groups, op, calls, lst, dns, info, race, att, fs>>

\* lines 61-69: the command runs
SwitchRun ==
    /\ \E t \in Targets(sw), onRefresh \in SUBSET ModelNames,
          refreshFails \in BOOLEAN, writeFails \in BOOLEAN :
           /\ t.ctrl # "" => (t.ctrl \in sw.controllers /\ t.name \in sw.models[t.ctrl])
           /\ sw' = switchRun(sw, t,
                        [onRefresh |-> onRefresh,
                         refreshErr |-> IF refreshFails THEN RefreshErr ELSE Nil,
                         writeErr |-> IF writeFails THEN WriteErr ELSE Nil])
    /\ UNCHANGED <<bstate, running, nextId, groups, op, calls, lst, dns, info, race, att, fs>>

NextSwitch == AddController \/ SwitchRun

SpecSwitch == InitSwitch /\ [][NextSwitch]_vars

----------------------------------------------------------------------------
(* SpecFs: the managed filesystem source (storage/provider/managedfs.go) on *)
(* a host.  The caller records the block devices of attached volumes and    *)
(* the filesystems it has created in the two maps of the source, between    *)
(* the calls; AttachFilesystems mounts filesystems.  fs holds the maps, the *)
(* mounts of the host, and the last call with the commands it ran.          *)

VolumeTags == {"volume-0", "volume-1"}
FilesystemTags == {"filesystem-0", "filesystem-1"}

\* storage.BlockDevice, as far as devicePath reads it
BlockDevices == {[DeviceName |-> "sda", HardwareId |-> ""],
                 [DeviceName |-> "", HardwareId |-> "hw-1"]}

\* the mount points asked for, one inside the other
MountPoints == {"/srv", "/srv/a"}

\* the device of the root filesystem of the host
RootSource == "/dev/root"

\* nothing is mounted at a path; a key is not in a map
NoMount == ""
Absent == [absent |-> TRUE]

\* lines 100-105
devicePath(dev) ==
    IF dev.DeviceName # "" THEN "/dev/" \o dev.DeviceName
    ELSE "/dev/disk/by-id/" \o dev.HardwareId

\* lines 57-66
backingVolumeBlockDevice(s, v) ==
    IF s.volumeBlockDevices[v] = Absent
    THEN [dev |-> Absent, err |-> OtherErr("backing-volume is not yet attached")]
    ELSE [dev |-> s.volumeBlockDevices[v], err |-> Nil]

\* filepath.Dir on the mount points
Dir(p) == IF p = "/srv/a" THEN "/srv" ELSE "/"

\* dirFuncs.mountPointSource: the device of the mount a path lies in
RECURSIVE mountPointSource(_, _)
mountPointSource(mounts, p) ==
    IF p = "/" THEN RootSource
    ELSE IF mounts[p] # NoMount THEN mounts[p]
    ELSE mountPointSource(mounts, Dir(p))

\* lines 160-188; fail names the step that fails; a mount point whose source
\* differs from its parent's is taken for mounted
mountFilesystem(s, dp, mountPoint, readOnly, fail) ==
    IF fail = "mkdir"
    THEN [s |-> s, err |-> Errorf("creating mount point", OtherErr("mkdir"))]
    ELSE IF fail = "df" THEN [s |-> s, err |-> OtherErr("df")]
    ELSE IF mountPointSource(s.mounts, mountPoint)
                # mountPointSource(s.mounts, Dir(mountPoint))
    THEN [s |-> s, err |-> Nil]
    ELSE
    With([s EXCEPT !.cmds = Append(@, <<"mount">>
                                \o (IF readOnly THEN <<"-o", "ro">> ELSE <<>>)
                                \o <<dp, mountPoint>>)], LAMBDA s1 :
    IF fail = "mount" THEN [s |-> s1, err |-> Errorf("mount failed", OtherErr("mount"))]
    ELSE [s |-> [s1 EXCEPT !.mounts[mountPoint] = dp], err |-> Nil])

\* lines 119-141
attachFilesystem(s, arg, fail) ==
    IF s.filesystems[arg.Filesystem] = Absent
    THEN [s |-> s, err |-> OtherErr("filesystem is not yet provisioned")]
    ELSE
    With(backingVolumeBlockDevice(s, s.filesystems[arg.Filesystem].Volume), LAMBDA b :
    IF b.err # Nil THEN [s |-> s, err |-> b.err]
    ELSE mountFilesystem(s, devicePath(b.dev), arg.Path, arg.ReadOnly, fail))

\* lines 108-117: the loop over args from arg i on; o.at is the arg at which
\* o.fail strikes
RECURSIVE attachFilesystems(_, _, _, _)
attachFilesystems(s, args, i, o) ==
    IF i > Len(args) THEN [s |-> s, err |-> Nil]
    ELSE With(attachFilesystem(s, args[i], IF o.at = i THEN o.fail ELSE "none"), LAMBDA a :
              IF a.err # Nil
              THEN [s |-> a.s, err |-> Errorf("attaching filesystem", a.err)]
              ELSE attachFilesystems(a.s, args, i + 1, o))

\* storage.FilesystemAttachmentParams; filesystem-1 is the one attached
\* read-only
AttachParams ==
    {[Filesystem |-> f, Path |-> p, ReadOnly |-> (f = "filesystem-1")] :
        f \in FilesystemTags, p \in MountPoints}

InitFs ==
    /\ bstate = NoState
    /\ running = {}
    /\ nextId = 0
    /\ groups = [g \in GroupNames |-> NoGroup]
    /\ op = Idle
    /\ calls = <<>>
    /\ lst = NoList
    /\ dns = NoCall
    /\ info = NoCall
    /\ race = NoCall
    /\ att = NoCall
    /\ sw = NoCall
    /\ fs = [pc |-> "idle",
             volumeBlockDevices |-> [v \in VolumeTags |-> Absent],
             filesystems |-> [f \in FilesystemTags |-> Absent],
             mounts |-> [p \in MountPoints |-> NoMount],
             attached |-> {}, args |-> <<>>, cmds |-> <<>>, err |-> Nil]

\* lines 34-40: between calls the caller records the block device of a volume
\* or a filesystem it has created on a volume
CallerUpdates ==
    /\ \/ \E v \in VolumeTags, dev \in BlockDevices :
             /\ fs.volumeBlockDevices[v] = Absent
             /\ \A u \in VolumeTags : fs.volumeBlockDevices[u] # dev
             /\ fs' = [fs EXCEPT !.pc = "idle", !.volumeBlockDevices[v] = dev]
       \/ \E f \in FilesystemTags, v \in VolumeTags :
             /\ fs.filesystems[f] = Absent
             /\ \A g \in FilesystemTags :
                    fs.filesystems[g] # Absent => fs.filesystems[g].Volume # v
             /\ fs' = [fs EXCEPT !.pc = "idle",
                                 !.filesystems[f] = [Tag |-> f, Volume |-> v]]
    /\ UNCHANGED <<bstate, running, nextId, groups, op, calls, lst, dns, info, race, att, sw>>

\* AttachFilesystems(args); attached keeps the attachments that earlier calls
\* returned
AttachFilesystems ==
    /\ \E args \in SeqsUpTo(AttachParams, MaxArgs) :
       \E o \in {[at |-> 0, fail |-> "none"]}
                \cup {[at |-> i, fail |-> k] : i \in DOMAIN args, k \in {"mkdir", "df", "mount"}} :
       \E r \in {attachFilesystems(
                     [fs EXCEPT !.cmds = <<>>, !.args = args,
                                !.attached = @ \cup (IF fs.pc = "done" /\ fs.err = Nil
                                                     THEN Range(fs.args) ELSE {})],
                     args, 1, o)} :
           fs' = [r.s EXCEPT !.pc = "done", !.err = r.err]
    /\ UNCHANGED <<bstate, running, nextId, groups, op, calls, lst, dns, info, race, att, sw>>

NextFs == CallerUpdates \/ AttachFilesystems

SpecFs == InitFs /\ [][NextFs]_vars

----------------------------------------------------------------------------
(* Spec, continued: the operations that only read.  Instances, DNSName and  *)
(* StateInfo run as whole calls, given the answers of the provider to the   *)
(* list requests they make.                                                 *)

\* the answer of the provider that names no instance
QuietResp == [err |-> Nil, Instances |-> <<>>]

\* the answers to the passes of one Instances call: the passes before the
\* last find nothing
PassSeqs(ids) ==
    {Repeat(QuietResp, k) \o <<r>> : k \in 0..(MaxAttempts - 1), r \in InfoResponses(ids)}

\* the answers to a poll after which the loop of DNSName goes on: its last
\* pass finds nothing, or the instance without an address
ContPasses(id) ==
    {Repeat(QuietResp, k) \o <<r>> :
        k \in 0..(MaxAttempts - 1),
        r \in {QuietResp, [err |-> Nil, Instances |-> <<Instance(id, "")>>]}}

\* the answers to the polls of one DNSName call on an instance without an
\* address: at least one poll, at most as many as the budget allows
PollSeqs(id) ==
    UNION {{[i \in 1..(k + 1) |-> IF i <= k THEN pre[i] ELSE last] :
               pre \in [1..k -> ContPasses(id)], last \in PassSeqs(<<id>>)}
           : k \in 0..(MaxPolls - 1)}

\* lines 69-83 as a function of the answers: the polls of the loop until it
\* breaks or its budget ends; cs are the list requests made so far
RECURSIVE dnsRun(_, _, _)
dnsRun(d, polls, cs) ==
    IF d.pc = "done" THEN [d |-> d, calls |-> cs]
    ELSE IF polls = <<>> THEN [d |-> dnsDone([d EXCEPT !.ended = TRUE]), calls |-> cs]
    ELSE With(environInstances(<<d.inst.InstanceId>>, Head(polls)), LAMBDA r :
              dnsRun(dnsPoll(d, r), Tail(polls), cs \o r.calls))

\* inst.DNSName()
instanceDNSName(inst, polls) ==
    With(dnsRun(dnsStart([tick |-> 0, held |-> inst], inst, "user"), polls, <<>>), LAMBDA r :
         [addr |-> r.d.ret.addr, err |-> r.d.ret.err, inst |-> r.d.inst, calls |-> r.calls])

\* lines 146-152: the addresses of the instances, in order
RECURSIVE infoAddrs(_, _)
infoAddrs(insts, polls) ==
    IF insts = <<>> THEN [addrs |-> <<>>, err |-> Nil, calls |-> <<>>]
    ELSE
    With(instanceDNSName(Head(insts), Head(polls)), LAMBDA r :
    IF r.err # Nil
    THEN [addrs |-> <<>>, calls |-> r.calls,
          err |-> Errorf("cannot get zookeeper instance DNS address", r.err)]
    ELSE
    With(infoAddrs(Tail(insts), Tail(polls)), LAMBDA rest :
    IF rest.err # Nil THEN [rest EXCEPT !.calls = r.calls \o @]
    ELSE [addrs |-> <<infoAddr(r.addr)>> \o rest.addrs, err |-> Nil,
          calls |-> r.calls \o rest.calls]
    ))

\* StateInfo()
environStateInfo(w, o) ==
    With(loadState(w, o.load), LAMBDA ld :
    With(<<Call("loadState", "", <<>>, <<>>, ld.err)>>, LAMBDA c1 :
    IF ld.err # Nil THEN [w |-> w, addrs |-> <<>>, err |-> ld.err, calls |-> c1]
    ELSE
    With(environInstances(ld.st.ZookeeperInstances, o.list), LAMBDA l :
    IF l.err # Nil THEN [w |-> w, addrs |-> <<>>, err |-> l.err, calls |-> c1 \o l.calls]
    ELSE
    With(infoAddrs(l.insts, o.polls), LAMBDA a :
         [w |-> w, addrs |-> a.addrs, err |-> a.err, calls |-> c1 \o l.calls \o a.calls])
    )))

\* the answers to the polls of the DNSName calls StateInfo makes on insts
RECURSIVE PollsFor(_)
PollsFor(insts) ==
    IF insts = <<>> THEN {<<>>}
    ELSE {<<p>> \o rest :
             p \in (IF Head(insts) # NilInst /\ Head(insts).DNSName = ""
                    THEN PollSeqs(Head(insts).InstanceId) ELSE {<<>>}),
             rest \in PollsFor(Tail(insts))}

\* the id lists a caller may ask Instances for: instances the provider once
\* started
IdLists == {[i \in DOMAIN k |-> k[i].InstanceId] : k \in StopLists}

Instances ==
    /\ op = Idle
    /\ \E ids \in IdLists :
       \E resps \in (IF ids = <<>> THEN {<<QuietResp>>} ELSE PassSeqs(ids)) :
       \E r \in {environInstances(ids, resps)} :
           /\ calls' = r.calls
           /\ op' = [name |-> "Instances", err |-> r.err, inst |-> NilInst,
                     known |-> r.insts, addrs |-> <<>>]
    /\ UNCHANGED <<bstate, running, nextId, groups, lst, dns, info, race, att, sw, fs>>

DNSName ==
    /\ op = Idle
    /\ \E inst \in {Instance(i, d) : i \in 1..nextId, d \in {""} \cup Addrs} :
       \E polls \in (IF inst.DNSName = "" THEN PollSeqs(inst.InstanceId) ELSE {<<>>}) :
       \E r \in {instanceDNSName(inst, polls)} :
           /\ calls' = r.calls
           /\ op' = [name |-> "DNSName", err |-> r.err, inst |-> r.inst,
                     known |-> <<>>, addrs |-> <<r.addr>>]
    /\ UNCHANGED <<bstate, running, nextId, groups, lst, dns, info, race, att, sw, fs>>

StateInfo ==
    /\ op = Idle
    /\ \E lf \in LoadFaults :
       \E ld \in {loadState(World, lf)} :
       \E list \in (IF ld.err = Nil /\ ld.st.ZookeeperInstances # <<>>
                    THEN PassSeqs(ld.st.ZookeeperInstances) ELSE {<<QuietResp>>}) :
       \E l \in {environInstances(ld.st.ZookeeperInstances, list)} :
       \E polls \in (IF ld.err = Nil /\ l.err = Nil THEN PollsFor(l.insts) ELSE {<<>>}) :
       \E r \in {environStateInfo(World, [load |-> lf, list |-> list, polls |-> polls])} :
           /\ SetWorld(r.w)
           /\ calls' = r.calls
           /\ op' = [name |-> "StateInfo", err |-> r.err, inst |-> NilInst,
                     known |-> <<>>, addrs |-> r.addrs]
    /\ UNCHANGED <<lst, dns, info, race, att, sw, fs>>

Next ==
    \/ Bootstrap \/ StartInstance \/ Destroy \/ Stop
    \/ Instances \/ DNSName \/ StateInfo
    \/ Return

Spec == Init /\ [][Next]_vars

----------------------------------------------------------------------------
(* SpecRace: two Bootstrap calls run at once on a fresh environment.  No    *)
(* lock is taken in Bootstrap, so the calls interleave between their remote *)
(* steps: the load, the start of the instance, the save (with the cleanup   *)
(* that follows a failed save).                                             *)

Procs == {1, 2}

InitRace ==
    /\ bstate = NoState
    /\ running = {}
    /\ nextId = 0
    /\ groups = [g \in GroupNames |-> NoGroup]
    /\ op = Idle
    /\ calls = <<>>
    /\ lst = NoList
    /\ dns = NoCall
    /\ info = NoCall
    /\ att = NoCall
    /\ sw = NoCall
    /\ fs = NoCall
    /\ race = [pc |-> [p \in Procs |-> "load"],
               ld |-> [p \in Procs |-> Nil],
               inst |-> [p \in Procs |-> NilInst],
               err |-> [p \in Procs |-> Nil],
               saves |-> <<>>]

\* lines 107-113 of call p
RaceLoad(p) ==
    /\ race.pc[p] = "load"
    /\ \E lf \in LoadFaults :
       \E ld \in {loadState(World, lf)} :
           race' = IF alreadyBootstrapped(ld.err)
                   THEN [race EXCEPT !.pc[p] = "done", !.ld[p] = ld.err,
                            !.err[p] = OtherErr("environment is already bootstrapped")]
                   ELSE IF loadErrAborts(ld.err)
                   THEN [race EXCEPT !.pc[p] = "done", !.ld[p] = ld.err, !.err[p] = ld.err]
                   ELSE [race EXCEPT !.pc[p] = "start", !.ld[p] = ld.err]
    /\ UNCHANGED <<bstate, running, nextId, groups, op, calls, lst, dns, info, att, sw, fs>>

\* lines 114-117 of call p
RaceStart(p) ==
    /\ race.pc[p] = "start"
    /\ \E so \in StartOracles(MaxInst - nextId) :
       \E si \in {startInstance(World, 0, so)} :
           /\ SetWorld(si.w)
           /\ race' = IF si.err # Nil
                      THEN [race EXCEPT !.pc[p] = "done",
                               !.err[p] = Errorf("cannot start bootstrap instance", si.err)]
                      ELSE [race EXCEPT !.pc[p] = "save", !.inst[p] = si.inst]
    /\ UNCHANGED <<op, calls, lst, dns, info, att, sw, fs>>

\* lines 118-133 of call p
RaceSave(p) ==
    /\ race.pc[p] = "save"
    /\ \E sf \in BOOLEAN :
       \E to \in (IF sf THEN TermOracles(1) ELSE {DefaultTerm}) :
       \E sv \in {saveState(World, newBootstrapState(race.inst[p]), sf)} :
       \E sp \in {IF sv.err # Nil THEN StopInstances(sv.w, <<race.inst[p]>>, to)
                  ELSE [w |-> sv.w, err |-> Nil, calls |-> <<>>]} :
           /\ SetWorld(sp.w)
           /\ race' = [race EXCEPT !.pc[p] = "done",
                          !.err[p] = IF sv.err # Nil THEN saveFailedResult(sv.err, sp.err)
                                     ELSE Nil,
                          !.saves = IF sv.err = Nil THEN Append(@, p) ELSE @]
    /\ UNCHANGED <<op, calls, lst, dns, info, att, sw, fs>>

NextRace == \E p \in Procs : RaceLoad(p) \/ RaceStart(p) \/ RaceSave(p)

SpecRace == InitRace /\ [][NextRace]_vars

----------------------------------------------------------------------------
(* Claims on Bootstrap and Destroy (Spec). *)

\* the step is a call of Bootstrap / of Destroy
BootstrapStep == op.name = "none" /\ op'.name = "Bootstrap"
DestroyStep == op.name = "none" /\ op'.name = "Destroy"

AlreadyBootstrappedErr == OtherErr("environment is already bootstrapped")

\* the instance ids the RunInstances calls of a log started
StartedIds(cs) == UNION {Range(cs[i].ids) : i \in {j \in DOMAIN cs : cs[j].api = "RunInstances"}}

\* every remote call of a Bootstrap after its load succeeded, and every
\* RunInstances call returned the one instance it was asked for
RestSucceeded(cs) ==
    \A i \in DOMAIN cs \ {1} :
        /\ cs[i].err = Nil
        /\ cs[i].api = "RunInstances" => Len(cs[i].ids) = 1

\* C1: a Bootstrap whose load reports not-found on an environment without
\* state succeeds if every later remote call succeeds; and when it succeeds
\* its run-instance requests started exactly one instance, which is running,
\* no other instance was started or stopped, and the persisted state exists
\* with exactly that instance's id.
C1_BootstrapFresh ==
    [][(BootstrapStep /\ ~bstate.exists /\ calls'[1].err = S3Err(404)) =>
        /\ RestSucceeded(calls') => op'.err = Nil
        /\ op'.err = Nil =>
            /\ StartedIds(calls') = {nextId + 1}
            /\ Len(CallsOf(calls', "RunInstances")) >= 1
            /\ nextId' = nextId + 1
            /\ running' = running \cup {nextId + 1}
            /\ op'.inst.InstanceId = nextId + 1
            /\ bstate' = [exists |-> TRUE, ZookeeperInstances |-> <<nextId + 1>>]
    ]_vars

\* a first Bootstrap has succeeded with every remote call succeeding
C1_Witness ==
    /\ op.name = "Bootstrap" /\ op.err = Nil
    /\ calls[1].err = S3Err(404) /\ RestSucceeded(calls)
    /\ bstate = [exists |-> TRUE, ZookeeperInstances |-> <<op.inst.InstanceId>>]
    /\ running = {op.inst.InstanceId}

\* C2: a Bootstrap whose load of the state succeeds returns the "already
\* bootstrapped" error, issues no call but the load (no security-group call,
\* no run-instance call, no write), and leaves the persisted state, the
\* instances and the groups as they were.
C2_BootstrapAlreadyBootstrapped ==
    [][(BootstrapStep /\ calls'[1].err = Nil) =>
        /\ bstate.exists
        /\ op'.err = AlreadyBootstrappedErr
        /\ Apis(calls') = <<"loadState">>
        /\ bstate' = bstate
        /\ running' = running
        /\ nextId' = nextId
        /\ groups' = groups
    ]_vars

\* a Bootstrap was refused on an environment bootstrapped, destroyed and
\* bootstrapped again
C2_Witness ==
    /\ op.name = "Bootstrap" /\ op.err = AlreadyBootstrappedErr
    /\ bstate.exists /\ bstate.ZookeeperInstances = <<2>>
    /\ calls[1].err = Nil

\* C3: Bootstrap goes on to start an instance only when the load fails with
\* not-found; on any other load error it returns that error, starts no
\* instance and writes no state.
C3_BootstrapAbortsOnLoadError ==
    op.name = "Bootstrap" =>
        /\ (calls[1].err # Nil /\ calls[1].err # S3Err(404)) =>
               /\ op.err = calls[1].err
               /\ Apis(calls) = <<"loadState">>
        /\ CallsOf(calls, "RunInstances") # <<>> => calls[1].err = S3Err(404)

\* a Bootstrap whose load failed with an error that is no *s3.Error saved a
\* state over the one that was there
BootstrapOverwrites ==
    /\ op.name = "Bootstrap" /\ op.err = Nil
    /\ calls[1].err = OtherErr("transport")
    /\ bstate.ZookeeperInstances = <<2>>

\* C4: when Bootstrap has started its instance and the save of the state
\* fails, the log holds one StopInstances call, after the save, on exactly
\* that instance; every terminate request it issues names that instance
\* alone; and Bootstrap returns the error of the save whatever the
\* StopInstances call returned.
C4_BootstrapCleanup ==
    (op.name = "Bootstrap" /\ \E i \in DOMAIN calls :
                                  calls[i].api = "saveState" /\ calls[i].err # Nil) =>
        LET sv == CallsOf(calls, "saveState")
            sp == CallsOf(calls, "StopInstances")
            tm == CallsOf(calls, "TerminateInstances")
            k == CHOOSE i \in DOMAIN calls : calls[i].api = "saveState"
        IN  /\ Len(sv) = 1 /\ Len(sp) = 1
            /\ calls[k + 1].api = "StopInstances"
            /\ StartedIds(calls) = {op.inst.InstanceId}
            /\ sp[1].ids = <<op.inst.InstanceId>>
            /\ Len(tm) >= 1
            /\ \A i \in DOMAIN tm : tm[i].ids = <<op.inst.InstanceId>>
            /\ \A i \in DOMAIN calls : i > k + 1 => calls[i].api = "TerminateInstances"
            /\ op.err = sv[1].err

\* the save failed and the cleanup failed too
C4_Witness ==
    /\ op.name = "Bootstrap"
    /\ CallsOf(calls, "saveState") # <<>> /\ CallsOf(calls, "saveState")[1].err # Nil
    /\ CallsOf(calls, "StopInstances") # <<>>
    /\ CallsOf(calls, "StopInstances")[1].err = Ec2Err("InternalError")
    /\ op.err = S3Err(500)
    /\ op.inst.InstanceId \in running

\* the ids a Destroy must terminate: the listed ones and the known ones
DestroySet == Range(calls[1].ids) \cup {op.known[i].InstanceId : i \in DOMAIN op.known}

\* C5: a Destroy whose listing succeeds calls terminateInstances once, on a
\* list holding exactly the listed ids and the known ids not listed; the
\* terminate requests name only those ids, the first of them all of them;
\* and the state is deleted only after that, as the last call, and only
\* when terminateInstances returned success.
C5_DestroyTerminatesUnion ==
    (op.name = "Destroy" /\ calls[1].err = Nil) =>
        LET ti == CallsOf(calls, "terminateInstances")
            tm == CallsOf(calls, "TerminateInstances")
            dl == CallsOf(calls, "deleteState")
        IN  /\ calls[1].api = "Instances"
            /\ Len(ti) = 1 /\ calls[2] = ti[1]
            /\ Range(ti[1].ids) = DestroySet
            /\ Len(ti[1].ids) = Cardinality(DestroySet)
            /\ \A i \in DOMAIN tm : Range(tm[i].ids) \subseteq DestroySet
            /\ DestroySet # {} <=> tm # <<>>
            /\ tm # <<>> => tm[1].ids = ti[1].ids
            /\ Len(dl) = (IF ti[1].err = Nil THEN 1 ELSE 0)
            /\ dl # <<>> => Last(calls).api = "deleteState"

\* two instances listed, a third known and not listed, all three terminated
\* in one request, then the state deleted
C5_Witness ==
    /\ op.name = "Destroy" /\ op.err = Nil
    /\ Len(calls[1].ids) = 2 /\ Len(op.known) = 1
    /\ op.known[1].InstanceId \notin Range(calls[1].ids)
    /\ Cardinality(DestroySet) = 3
    /\ Apis(calls) = <<"Instances", "terminateInstances", "TerminateInstances", "deleteState">>
    /\ calls[3].err = Nil
    /\ running = {}
    /\ ~bstate.exists

\* C6: a Destroy whose listing fails or whose termination returns an error
\* returns an error, issues no delete and leaves the persisted state as it
\* was; a Destroy returns success only if the termination and the delete
\* both succeeded.
C6_DestroyKeepsStateOnFailure ==
    [][DestroyStep =>
        LET ti == CallsOf(calls', "terminateInstances")
            dl == CallsOf(calls', "deleteState")
            failed == calls'[1].err # Nil \/ (ti # <<>> /\ ti[1].err # Nil)
        IN  /\ failed =>
                /\ op'.err # Nil
                /\ dl = <<>>
                /\ bstate' = bstate
            /\ op'.err = Nil =>
                /\ calls'[1].err = Nil
                /\ ti # <<>> /\ ti[1].err = Nil
                /\ dl # <<>> /\ dl[1].err = Nil
                /\ ~bstate'.exists
            /\ (dl # <<>> /\ dl[1].err # Nil) => op'.err = dl[1].err /\ bstate' = bstate
    ]_vars

\* a Destroy of a bootstrapped environment failed in its termination and
\* kept the state
C6_Witness ==
    /\ op.name = "Destroy" /\ op.err = Ec2Err("InternalError")
    /\ bstate.exists
    /\ CallsOf(calls, "terminateInstances") # <<>>
    /\ CallsOf(calls, "deleteState") = <<>>

----------------------------------------------------------------------------
(* Claims on terminateInstances and startInstance (Spec). *)

\* the call of terminateInstances (or of StopInstances, which passes its ids
\* on) in the log of the operation, and the requests it issued
TermEntries == {i \in DOMAIN calls : calls[i].api \in {"StopInstances", "terminateInstances"}}
HasTerm == TermEntries # {}
TE == calls[CHOOSE i \in TermEntries : TRUE]
TM == CallsOf(calls, "TerminateInstances")

NotFoundErr == Ec2Err("InvalidInstanceID.NotFound")

\* the first error of the calls that is not "not found", nil if there is none
FirstOtherErr(cs) ==
    LET bad == {i \in DOMAIN cs : cs[i].err # Nil /\ cs[i].err # NotFoundErr}
    IN  IF bad = {} THEN Nil
        ELSE cs[CHOOSE i \in bad : \A j \in bad : i <= j].err

\* C11: terminateInstances on two or more ids issues bulk requests first, all
\* but the last of them answered "not found"; if the last is answered "not
\* found" too, it then issues one request per id, in input order, whatever
\* the earlier ones returned, and returns the first error among them that is
\* not "not found", or success; an id whose single request succeeded is no
\* longer running.  Otherwise it issues no single request and returns the
\* outcome of the last bulk request.
C11_TerminateFallback ==
    (HasTerm /\ Len(TE.ids) >= 2) =>
        LET IsBulk(c) == c.ids = TE.ids
            IsSingle(c) == Len(c.ids) = 1
            bulk == SelectSeq(TM, IsBulk)
            single == SelectSeq(TM, IsSingle)
        IN  /\ bulk # <<>>
            /\ TM = bulk \o single
            /\ \A i \in 1..(Len(bulk) - 1) : bulk[i].err = NotFoundErr
            /\ IF Last(bulk).err = NotFoundErr
               THEN /\ Len(single) = Len(TE.ids)
                    /\ \A i \in DOMAIN single : single[i].ids = <<TE.ids[i]>>
                    /\ TE.err = FirstOtherErr(single)
                    /\ \A i \in DOMAIN single :
                           single[i].err = Nil => TE.ids[i] \notin running
               ELSE /\ single = <<>>
                    /\ TE.err = Last(bulk).err

\* StopInstances of a running and a stopped instance: the bulk requests are
\* answered "not found", the single request of the first succeeds, that of
\* the second is answered "not found", and the call succeeds
C11_Witness ==
    /\ op.name = "StopInstances" /\ op.err = Nil
    /\ Len(TE.ids) = 2
    /\ Len(TM) >= 3
    /\ TM[Len(TM) - 2].err = NotFoundErr /\ TM[Len(TM) - 2].ids = TE.ids
    /\ TM[Len(TM) - 1].err = Nil /\ TM[Len(TM) - 1].ids = <<TE.ids[1]>>
    /\ TM[Len(TM)].err = NotFoundErr /\ TM[Len(TM)].ids = <<TE.ids[2]>>
    /\ TE.ids[1] \notin running

\* C12: terminateInstances and StopInstances on a non-empty id list, of one
\* id or more, every request of which is answered "not found" to the end of
\* the budget, return success; and they never return "not found".
C12_NotFoundIsSuccess ==
    (HasTerm /\ Len(TE.ids) >= 1) =>
        /\ (\A i \in DOMAIN TM : TM[i].err = NotFoundErr) => TE.err = Nil
        /\ TE.err # NotFoundErr

\* StopInstances of one instance that is gone has returned "not found"
StopOneGoneFails ==
    /\ op.name = "StopInstances" /\ op.err = NotFoundErr
    /\ Len(TE.ids) = 1
    /\ TE.ids[1] \notin running
    /\ \A i \in DOMAIN TM : TM[i].err = NotFoundErr

\* C13: terminateInstances on an empty id list returns success and issues no
\* request; a StopInstances of no instance issues no call at all and
\* succeeds; and a Destroy whose listing and known list are both empty goes
\* on to delete the state.
C13_TerminateNothing ==
    (HasTerm /\ TE.ids = <<>>) =>
        /\ TE.err = Nil
        /\ TM = <<>>
        /\ op.name = "StopInstances" =>
               /\ Apis(calls) = <<"StopInstances">>
               /\ op.err = Nil
        /\ op.name = "Destroy" =>
               /\ Apis(calls) = <<"Instances", "terminateInstances", "deleteState">>
               /\ op.err = Last(calls).err
               /\ op.err = Nil => ~bstate.exists

\* a Destroy after every instance was stopped: nothing listed, nothing known,
\* no terminate request, the state deleted
C13_Witness ==
    /\ op.name = "Destroy" /\ op.err = Nil
    /\ nextId >= 1 /\ running = {}
    /\ op.known = <<>>
    /\ Apis(calls) = <<"Instances", "terminateInstances", "deleteState">>
    /\ ~bstate.exists

\* the run-instance requests of the operation, and what startInstance returned
RN == CallsOf(calls, "RunInstances")
StartErr == IF op.name = "Bootstrap" /\ op.err # Nil /\ op.err.kind = "errorf"
            THEN op.err.cause ELSE op.err
GroupNotFoundErr == Ec2Err("InvalidGroup.NotFound")

\* C14: every run-instance request of startInstance but the last failed with
\* "security group not found"; a last request that failed, with that error
\* when the budget ended or with any other, makes startInstance return that
\* error; a last request that succeeded with one instance makes it return that
\* instance.
C14_RunRetriedOnGroupNotFound ==
    (op.name \in {"Bootstrap", "StartInstance"} /\ RN # <<>>) =>
        /\ \A i \in 1..(Len(RN) - 1) : RN[i].err = GroupNotFoundErr
        /\ Last(RN).err # Nil =>
               /\ StartErr = Errorf("cannot run instances", Last(RN).err)
               /\ op.inst = NilInst
        /\ (Last(RN).err = Nil /\ Len(Last(RN).ids) = 1) =>
               /\ op.inst # NilInst
               /\ op.inst.InstanceId = Last(RN).ids[1]
               /\ op.name = "StartInstance" => op.err = Nil

\* a StartInstance whose first request failed with "security group not
\* found" and whose second succeeded
C14_Witness ==
    /\ op.name = "StartInstance" /\ op.err = Nil
    /\ Len(RN) = 2
    /\ RN[1].err = GroupNotFoundErr
    /\ RN[2].err = Nil
    /\ op.inst.InstanceId \in running

\* C15: a run-instance request that returns without error and with a number
\* of instances other than one is the last request of startInstance, which
\* returns an error and no instance; a Bootstrap then saves no state.
C15_CountMismatch ==
    [][(op.name = "none" /\ op'.name \in {"Bootstrap", "StartInstance"}) =>
        LET rn == CallsOf(calls', "RunInstances")
            err == IF op'.name = "Bootstrap" /\ op'.err # Nil /\ op'.err.kind = "errorf"
                   THEN op'.err.cause ELSE op'.err
        IN  \A i \in DOMAIN rn :
                (rn[i].err = Nil /\ Len(rn[i].ids) # 1) =>
                    /\ i = Len(rn)
                    /\ err = Errorf("expected 1 started instance", Nil)
                    /\ op'.err # Nil
                    /\ op'.inst = NilInst
                    /\ CallsOf(calls', "saveState") = <<>>
                    /\ bstate' = bstate
    ]_vars

\* a Bootstrap whose run-instance request returned two instances: an error,
\* no state
C15_Witness ==
    /\ op.name = "Bootstrap" /\ op.err # Nil
    /\ RN # <<>> /\ Last(RN).err = Nil /\ Len(Last(RN).ids) = 2
    /\ calls[1].err = S3Err(404)
    /\ ~bstate.exists
    /\ op.inst = NilInst

----------------------------------------------------------------------------
(* Claims on DNSName and StateInfo (SpecInfo). *)

\* a DNSName call on an instance without an address has returned
DnsDone == dns.pc = "done" /\ dns.inst # NilInst /\ dns.start = ""

CannotFindErr(err) == Errorf("cannot find instance", err)

\* C17: DNSName on an instance with no cached address fails with the timeout
\* condition exactly when the long budget has ended with no address seen in
\* any poll; it fails with the not-found condition when the instance was
\* listed by a poll and missing in a later one; and it returns an address
\* only if some poll returned a record with that address.
C17_DNSNameOutcomes ==
    DnsDone =>
        /\ dns.ret.err = TimedOutErr <=> (dns.ended /\ dns.seen = {})
        /\ dns.gone => dns.ret.err = CannotFindErr(ErrMissingInstance)
        /\ dns.ret.err = Nil => dns.ret.addr \in dns.seen

\* the instance was missing in every poll until the budget ended, and DNSName
\* has failed with "cannot find instance", not with the timeout
DNSNameMissingAtEnd ==
    /\ DnsDone /\ dns.ended /\ dns.seen = {} /\ ~dns.found
    /\ dns.polls = MaxPolls
    /\ dns.ret.err = CannotFindErr(ErrMissingInstance)

\* C18: a DNSName call on an instance that carries an address returns that
\* address without a request to the provider; a call by the user that
\* returned an address has left it on the instance; and the address of the
\* instance the user holds, once it has one, is the same after every step.
C18_CachedAddressKept ==
    [][ /\ (dns'.pc # "idle" /\ dns'.inst # NilInst /\ dns'.start # "") =>
               /\ dns'.pc = "done"
               /\ dns'.reqs = 0 /\ dns'.polls = 0
               /\ dns'.ret = [addr |-> dns'.start, err |-> Nil]
               /\ dns'.inst.DNSName = dns'.start
        /\ (dns'.pc = "done" /\ dns'.who = "user" /\ dns'.ret.err = Nil) =>
               /\ dns'.ret.addr # ""
               /\ dns'.held.DNSName = dns'.ret.addr
        /\ dns.held.DNSName # "" => dns'.held = dns.held
        /\ (dns.held.DNSName # "" /\ dns'.who = "user" /\ dns'.tick # dns.tick) =>
               dns'.ret = [addr |-> dns.held.DNSName, err |-> Nil]
    ]_vars

\* the user's second call on an instance whose address an earlier call found
C18_Witness ==
    /\ dns.pc = "done" /\ dns.who = "user"
    /\ dns.start = "a" /\ dns.reqs = 0
    /\ dns.ret = [addr |-> "a", err |-> Nil]
    /\ dns.held.DNSName = "a"

----------------------------------------------------------------------------
(* Claims on concurrent Bootstrap calls (SpecRace). *)

\* both calls found no state, which is so only if both loaded before either
\* saved, and both have returned success
BothBootstrapped ==
    \A p \in Procs :
        /\ race.pc[p] = "done"
        /\ race.ld[p] = S3Err(404)
        /\ race.err[p] = Nil

\* C20: two Bootstrap calls on a fresh environment exclude each other in no
\* way: when both load the state before either saves and both return
\* success, each has started an instance of its own, both instances run, and
\* the stored state names the instance of the call that saved last and no
\* other.
C20_RacingBootstraps ==
    BothBootstrapped =>
        /\ race.inst[1] # NilInst /\ race.inst[2] # NilInst
        /\ race.inst[1].InstanceId # race.inst[2].InstanceId
        /\ {race.inst[p].InstanceId : p \in Procs} \subseteq running
        /\ Len(race.saves) = 2
        /\ bstate = [exists |-> TRUE,
                     ZookeeperInstances |-> <<race.inst[race.saves[2]].InstanceId>>]

\* both calls have succeeded; call 2 saved first, call 1 last, and the state
\* names the instance of call 1 while the instance of call 2 runs
C20_Witness ==
    /\ BothBootstrapped
    /\ race.saves = <<2, 1>>
    /\ bstate.ZookeeperInstances = <<race.inst[1].InstanceId>>
    /\ race.inst[2].InstanceId \in running
    /\ race.inst[2].InstanceId \notin Range(bstate.ZookeeperInstances)

----------------------------------------------------------------------------
(* Claims on ensureGroup (SpecGroups). *)

\* the step is a call of ensureGroup
EnsureStep == op'.name = "ensureGroup" /\ op'.tick # op.tick

\* C7: an ensureGroup call that converges a group from current rules A to
\* desired rules B issues at most one revoke and one authorize; a revoke it
\* issues names exactly A \ B and an authorize exactly B \ A; when the call
\* succeeds the revoke is issued iff A \ B is not empty and the authorize iff
\* B \ A is not empty; and a call that directly follows a successful call with
\* the same B on the same group issues neither.
C7_EnsureGroupDiff ==
    [][EnsureStep =>
        LET A == groups[op'.group].perms
            B == RuleAtoms(op'.perms)
            rv == CallsOf(calls', "RevokeSecurityGroup")
            au == CallsOf(calls', "AuthorizeSecurityGroup")
        IN  /\ Len(rv) <= 1 /\ Len(au) <= 1
            /\ \A i \in DOMAIN rv :
                   /\ rv[i].name = op'.group
                   /\ RuleAtoms(rv[i].perms) = A \ B
                   /\ A \ B # {}
            /\ \A i \in DOMAIN au :
                   /\ au[i].name = op'.group
                   /\ RuleAtoms(au[i].perms) = B \ A
                   /\ B \ A # {}
            /\ op'.err = Nil =>
                   /\ Len(rv) = (IF A \ B = {} THEN 0 ELSE 1)
                   /\ Len(au) = (IF B \ A = {} THEN 0 ELSE 1)
            /\ ( /\ op.name = "ensureGroup" /\ op.err = Nil
                 /\ op.group = op'.group /\ op.perms = op'.perms )
               => rv = <<>> /\ au = <<>>
    ]_vars

\* a successful ensureGroup that both revoked and authorized rules
C7_Witness ==
    /\ op.name = "ensureGroup" /\ op.err = Nil
    /\ CallsOf(calls, "RevokeSecurityGroup") # <<>>
    /\ CallsOf(calls, "AuthorizeSecurityGroup") # <<>>

\* C8: after an ensureGroup(name, B) call that returns success the group
\* named name exists and its rules are exactly the permission set of B,
\* whatever the group was before; and no ensureGroup call, successful or
\* not, deletes a group.
C8_EnsureGroupConverges ==
    [][EnsureStep =>
        /\ op'.err = Nil =>
               /\ op'.g = op'.group
               /\ groups'[op'.group].exists
               /\ groups'[op'.group].perms = RuleAtoms(op'.perms)
        /\ \A n \in GroupNames : groups[n].exists => groups'[n].exists
    ]_vars

\* a successful ensureGroup on a group that existed with other rules
C8_Witness ==
    /\ op.name = "ensureGroup" /\ op.err = Nil
    /\ Apis(calls) = <<"CreateSecurityGroup", "SecurityGroups",
                       "RevokeSecurityGroup", "AuthorizeSecurityGroup">>
    /\ groups[op.group].perms = RuleAtoms(op.perms)
    /\ Cardinality(groups[op.group].perms) = 2

----------------------------------------------------------------------------
(* Claims on Instances and gatherInstances (SpecList). *)

\* an Instances call on a non-empty id list has returned
ListDone == lst.pc = "done" /\ Len(lst.ids) > 0

SlotFilled(i) == lst.insts[i] # NilInst

\* Instances returns the outcome of its last gather pass, with the slot array
\* if some slot is filled and with no array otherwise
InstancesReturnsLastOutcome ==
    ListDone =>
        /\ lst.ret.err = lst.err
        /\ lst.ret.insts = IF \E i \in DOMAIN lst.ids : SlotFilled(i)
                           THEN lst.insts ELSE <<>>
        /\ Len(lst.insts) = Len(lst.ids)

\* C9: Instances(ids) for a non-empty id list returns the slot array (as long
\* as ids, unfound slots empty) with the outcome of the last gather pass if
\* some slot was filled, and no array with that outcome otherwise; and when
\* every list call succeeds and exactly one of N >= 2 ids never appears in a
\* response while the others do, it returns the N-1 found instances, the
\* slot of the absent id empty, and the missing signal.
C9_InstancesPartial ==
    /\ InstancesReturnsLastOutcome
    /\ ( /\ ListDone
         /\ Len(lst.ids) >= 2
         /\ lst.listOk
         /\ \E j \in DOMAIN lst.ids :
                /\ lst.ids[j] \notin lst.seen
                /\ \A i \in DOMAIN lst.ids \ {j} : lst.ids[i] \in lst.seen )
       => /\ lst.ret.err = ErrMissingInstance
          /\ Len(lst.ret.insts) = Len(lst.ids)
          /\ \A i \in DOMAIN lst.ids :
                 IF lst.ids[i] \in lst.seen
                 THEN lst.ret.insts[i] # NilInst
                      /\ lst.ret.insts[i].InstanceId = lst.ids[i]
                 ELSE lst.ret.insts[i] = NilInst

\* Instances has returned success with a slot of its array empty
InstancesNilThoughMissing ==
    /\ ListDone /\ lst.listOk
    /\ lst.ret.err = Nil
    /\ \E i \in DOMAIN lst.ids : lst.ret.insts[i] = NilInst

\* C16: in every Instances call, after every pass and in the result, a
\* filled slot i holds the instance whose id is input id i, whatever the
\* order of the records in the response and also when an id is given twice.
C16_SlotHoldsItsId ==
    /\ lst.pc # "idle" =>
           \A i \in DOMAIN lst.ids :
               SlotFilled(i) => lst.insts[i].InstanceId = lst.ids[i]
    /\ (ListDone /\ lst.ret.insts # <<>>) =>
           /\ Len(lst.ret.insts) = Len(lst.ids)
           /\ \A i \in DOMAIN lst.ids :
                  lst.ret.insts[i] # NilInst => lst.ret.insts[i].InstanceId = lst.ids[i]

\* a call that gives the same id twice has returned with both slots filled
C16_Witness ==
    /\ ListDone /\ Len(lst.ids) = 2
    /\ \A i \in DOMAIN lst.ids : SlotFilled(i)
    /\ lst.ids[1] = lst.ids[2]
    /\ lst.ret.insts = lst.insts

\* C10: after a gatherInstances pass whose list call succeeded, the pass
\* returned the missing signal if and only if some slot is still empty.
C10_GatherMissingIffEmptySlot ==
    (lst.pc # "idle" /\ lst.lastListed) =>
        ( lst.err = ErrMissingInstance
          <=> \E i \in DOMAIN lst.ids : ~SlotFilled(i) )

\* the second pass of a call fills the last empty slot and still reports
\* missing instances
GatherMissingThoughFull ==
    /\ lst.pc # "idle" /\ lst.lastListed /\ lst.passes = 2
    /\ \A i \in DOMAIN lst.ids : SlotFilled(i)
    /\ lst.err = ErrMissingInstance

\* a pass reports success while a slot is empty
GatherNilThoughEmpty ==
    /\ lst.pc # "idle" /\ lst.lastListed
    /\ \E i \in DOMAIN lst.ids : ~SlotFilled(i)
    /\ lst.err = Nil


----------------------------------------------------------------------------
(* Claims on the stored state across the public operations (Spec). *)

\* C21: over any sequence of public operations the stored state changes
\* only in a Bootstrap whose save succeeded, which writes it, and in a
\* Destroy whose listing, termination and delete succeeded, which removes it;
\* StateInfo, StartInstance, StopInstances, Instances and DNSName leave it as
\* it is; a Bootstrap that does not reach its save (its instance start
\* failed) leaves it as it is, absent when it was absent; after a successful
\* Destroy there is no state, and on an environment without state a
\* StateInfo fails and a Bootstrap is not refused as "already bootstrapped".
C21_StateWrittenByBootstrapOnly ==
    [][LET ti == CallsOf(calls', "terminateInstances")
           dl == CallsOf(calls', "deleteState")
           sv == CallsOf(calls', "saveState")
       IN  /\ bstate' # bstate =>
                \/ /\ op'.name = "Bootstrap"
                   /\ sv # <<>> /\ sv[1].err = Nil
                   /\ bstate' = [exists |-> TRUE, ZookeeperInstances |-> sv[1].ids]
                \/ /\ op'.name = "Destroy"
                   /\ calls'[1].err = Nil
                   /\ ti # <<>> => ti[1].err = Nil
                   /\ dl # <<>> /\ dl[1].err = Nil
                   /\ bstate' = NoState
           /\ op'.name \in {"StateInfo", "StartInstance", "StopInstances",
                            "Instances", "DNSName"} => bstate' = bstate
           /\ (op'.name = "Bootstrap" /\ sv = <<>>) => bstate' = bstate
           /\ (op'.name = "Bootstrap" /\ ~bstate.exists /\ op'.err # Nil
               /\ op'.err.kind = "errorf"
               /\ op'.err.msg = "cannot start bootstrap instance") => ~bstate'.exists
           /\ (op'.name = "Destroy" /\ op'.err = Nil) => ~bstate'.exists
           /\ (op'.name = "StateInfo" /\ ~bstate.exists) => op'.err # Nil
           /\ (op'.name = "Bootstrap" /\ ~bstate.exists) =>
                  op'.err # AlreadyBootstrappedErr
      ]_vars

\* a Destroy has removed the state of an environment whose one instance it
\* has terminated
C21_Witness ==
    /\ op.name = "Destroy" /\ op.err = Nil
    /\ nextId = 1 /\ running = {}
    /\ CallsOf(calls, "terminateInstances") # <<>>
    /\ CallsOf(calls, "deleteState") # <<>>
    /\ CallsOf(calls, "deleteState")[1].err = Nil
    /\ bstate = NoState


----------------------------------------------------------------------------
(* Claims on the calls of ensureGroup (SpecGroups). *)

DuplicateErr == Ec2Err("InvalidGroup.Duplicate")

\* the orders in which one ensureGroup call may issue its calls
EnsureOrders ==
    { <<"CreateSecurityGroup">>,
      <<"CreateSecurityGroup", "AuthorizeSecurityGroup">>,
      <<"CreateSecurityGroup", "SecurityGroups">>,
      <<"CreateSecurityGroup", "SecurityGroups", "RevokeSecurityGroup">>,
      <<"CreateSecurityGroup", "SecurityGroups", "AuthorizeSecurityGroup">>,
      <<"CreateSecurityGroup", "SecurityGroups", "RevokeSecurityGroup",
        "AuthorizeSecurityGroup">> }

\* C25: an ensureGroup call issues exactly one create call, first; a describe
\* call, second, iff the create reported "duplicate"; then at most one revoke
\* call and after it at most one authorize call, however many rules differ;
\* when the create fails with another error, or the describe fails, the call
\* returns that error, and when the revoke fails it returns that error
\* (wrapped in "cannot revoke security group"); in each case the failed call
\* is the last call issued.
C25_EnsureGroupCalls ==
    op.name = "ensureGroup" =>
        LET a == Apis(calls)
            ds == CallsOf(calls, "SecurityGroups")
            rv == CallsOf(calls, "RevokeSecurityGroup")
        IN  /\ a \in EnsureOrders
            /\ (ds # <<>>) <=> (calls[1].err = DuplicateErr)
            /\ (calls[1].err # Nil /\ calls[1].err # DuplicateErr) =>
                   /\ Len(calls) = 1
                   /\ op.err = calls[1].err
            /\ (ds # <<>> /\ ds[1].err # Nil) =>
                   /\ Len(calls) = 2
                   /\ op.err = ds[1].err
            /\ (rv # <<>> /\ rv[1].err # Nil) =>
                   /\ Last(a) = "RevokeSecurityGroup"
                   /\ op.err = Errorf("cannot revoke security group", rv[1].err)

\* one call revoked two rules with one revoke call and then added two rules
\* with one authorize call
C25_Witness ==
    /\ op.name = "ensureGroup" /\ op.err = Nil
    /\ Len(calls) = 4
    /\ Cardinality(RuleAtoms(calls[3].perms)) >= 2
    /\ Cardinality(RuleAtoms(calls[4].perms)) >= 2

\* a failed revoke ended a call
C25_RevokeFailed ==
    /\ op.name = "ensureGroup" /\ op.err # Nil
    /\ Len(calls) = 3 /\ calls[3].err # Nil


----------------------------------------------------------------------------
(* Claims on the passes of one Instances call (SpecList). *)

\* the step is one gather pass of the running call
GatherStep == lst.pc = "loop" /\ lst'.pc \in {"loop", "done"} /\ lst'.passes = lst.passes + 1

\* the step ends the running call without a pass
BudgetStep == lst.pc = "loop" /\ lst'.pc = "done" /\ lst'.passes = lst.passes

\* C26: across the gather passes of one Instances call a filled slot keeps
\* its instance; a pass issues at most one list request, which names exactly
\* the ids of the slots that are empty before it, and none when every slot is
\* filled; the loop goes on after a pass only when the pass returned the
\* missing signal, and a pass that returned nil or another error ends the
\* call at once with the slots as they are.
C26_GatherPasses ==
    [][/\ GatherStep =>
            LET empty == {i \in DOMAIN lst.ids : lst.insts[i] = NilInst}
                new == SubSeq(lst'.reqs, Len(lst.reqs) + 1, Len(lst'.reqs))
            IN  /\ lst'.ids = lst.ids
                /\ \A i \in DOMAIN lst.ids \ empty : lst'.insts[i] = lst.insts[i]
                /\ SubSeq(lst'.reqs, 1, Len(lst.reqs)) = lst.reqs
                /\ Len(new) = (IF empty = {} THEN 0 ELSE 1)
                /\ \A k \in DOMAIN new :
                       /\ Len(new[k]) = Cardinality(empty)
                       /\ \E f \in [DOMAIN new[k] -> empty] :
                              /\ \A a, b \in DOMAIN f : a < b => f[a] < f[b]
                              /\ \A a \in DOMAIN f : new[k][a] = lst.ids[f[a]]
                /\ lst'.pc = "loop" => lst'.err = ErrMissingInstance
                /\ lst'.err # ErrMissingInstance => lst'.pc = "done"
                /\ lst'.pc = "done" => lst'.ret = instancesResult(lst'.insts, lst'.err)
       /\ BudgetStep => lst'.insts = lst.insts /\ lst'.reqs = lst.reqs
    ]_vars

\* the second pass of a call for two ids asked for the one id the first pass
\* had not found, and found it; the third pass found every slot filled, made
\* no list request and ended the call
C26_Witness ==
    /\ lst.pc = "done" /\ lst.passes = 3 /\ lst.err = Nil
    /\ Len(lst.ids) = 2 /\ lst.ids[1] # lst.ids[2]
    /\ Len(lst.reqs) = 2
    /\ lst.reqs[1] = lst.ids /\ lst.reqs[2] = <<lst.ids[2]>>
    /\ \A i \in DOMAIN lst.ids : lst.insts[i] # NilInst


----------------------------------------------------------------------------
(* Claims on newPermSet and ipPerms (SpecPerms). *)

\* the distinct elements of a sequence
Distinct(s) == Cardinality(Range(s))

\* a rule list with the name and owner id of every source group blanked
StripMeta(ps) ==
    [i \in DOMAIN ps |->
        [ps[i] EXCEPT !.SourceGroups =
            [j \in DOMAIN @ |-> UserSecurityGroup(@[j].Id, "", "")]]]

\* C23: newPermSet has one member per protocol, port range and single source:
\* a rule contributes as many members as it has different source group ids
\* and source addresses (N for N different sources, none without a source),
\* each with exactly one of groupId and ipAddr; the set is the same for every
\* order of the rules and for every name and owner id of the source groups;
\* and newPermSet of the slice ipPerms makes of a set S, in whatever order,
\* is S, each element of the slice naming one source.
C23_PermSetFlattens ==
    /\ op.name = "newPermSet" =>
           /\ \A i \in DOMAIN op.ps :
                  LET r == op.ps[i]
                      one == newPermSet(<<r>>)
                      ids == {r.SourceGroups[j].Id : j \in DOMAIN r.SourceGroups}
                  IN  /\ Cardinality(one) = Cardinality(ids) + Distinct(r.SourceIPs)
                      /\ one \subseteq op.m
                      /\ \A k \in one :
                             /\ k.protocol = r.Protocol
                             /\ k.fromPort = r.FromPort /\ k.toPort = r.ToPort
                             /\ (k.groupId = "") # (k.ipAddr = "")
                             /\ k.groupId # "" => k.groupId \in ids
                             /\ k.ipAddr # "" => k.ipAddr \in Range(r.SourceIPs)
           /\ op.m = UNION {newPermSet(<<op.ps[i]>>) : i \in DOMAIN op.ps}
           /\ \A qs \in Orders(op.ps) : newPermSet(qs) = op.m
           /\ newPermSet(StripMeta(op.ps)) = op.m
    /\ op.name = "ipPerms" =>
           /\ op.back = op.m
           /\ Len(op.ps) = Cardinality(op.m)
           /\ \A i \in DOMAIN op.ps :
                  Len(op.ps[i].SourceGroups) + Len(op.ps[i].SourceIPs) = 1

\* newPermSet made three members of one rule with two source addresses and
\* two source groups of the same id
C23_Witness ==
    /\ op.name = "newPermSet"
    /\ Len(op.ps) = 1
    /\ Len(op.ps[1].SourceIPs) = 2 /\ Len(op.ps[1].SourceGroups) = 2
    /\ op.ps[1].SourceGroups[1].Name # op.ps[1].SourceGroups[2].Name
    /\ Cardinality(op.m) = 3

\* a set of four members came back from the slice ipPerms made of it
C23_RoundTrip ==
    /\ op.name = "ipPerms" /\ Cardinality(op.m) = 4 /\ op.back = op.m


----------------------------------------------------------------------------
(* Claims on the retry strategy (SpecAttemptFair). *)

AttemptRunning == att.pc \in {"next", "body"}
AttemptOver == att.pc \in {"ended", "broken"}

\* what holds of a retry loop at every moment
AttemptInv ==
    att.pc # "idle" =>
        /\ att.calls >= 1 => att.attempts >= 1
        /\ att.pc \in {"body", "ended", "broken"} => att.attempts >= 1
        /\ att.pc = "ended" => att.calls >= 2
        /\ (att.pc = "body" /\ att.calls = 1) => att.slept = <<0>> /\ att.now = 0
        /\ (att.pc = "body" /\ att.calls > 1) =>
               att.slept = <<att.delay>> /\ att.now <= att.total
        /\ (att.attempts - 1) * att.delay <= att.total
        /\ att.calls <= att.attempts + 1
        /\ ([total |-> att.total, delay |-> att.delay] = [total |-> 5, delay |-> 1])
               => att.attempts <= 6
        /\ att.calls < MaxCalls

\* C22: for every strategy the first next() after start() answers true and
\* has not slept, so a loop makes at least one attempt; a later next() that
\* answers true has slept the delay and the time passed does not exceed the
\* total; the attempts after the first number at most total / delay (at most
\* 6 attempts for a total of 1s and a delay of 200ms), one more next() answers
\* false, and every loop that runs comes to its end.
C22_RetryStrategy ==
    /\ []AttemptInv
    /\ [](AttemptRunning => <>AttemptOver)

\* next() has ended a loop of total 1s and delay 200ms after its sixth attempt
C22_Witness ==
    /\ att.pc = "ended"
    /\ att.total = 5 /\ att.delay = 1
    /\ att.attempts = 6 /\ att.calls = 7


----------------------------------------------------------------------------
(* Claims on the switch command (SpecSwitch). *)

SwitchDone == sw.pc = "done"
SwitchWrites == SelectSeq(sw.calls, LAMBDA c : c.api = "WriteCurrentController")
SwitchRefreshes == SelectSeq(sw.calls, LAMBDA c : c.api = "RefreshModels")

\* the target of the last run names a controller of the store
TargetIsController == sw.target.ctrl = "" /\ sw.target.name \in sw.controllers

\* the controller the target of the last run resolves to, "" if to none: the
\* controller it names, or the controller that qualifies the name of one of
\* its models, or the current controller when that has a model of the name
SwitchResolved ==
    IF TargetIsController THEN sw.target.name
    ELSE IF sw.target.ctrl # ""
    THEN (IF sw.target.ctrl \in sw.controllers
             /\ sw.target.name \in sw.models[sw.target.ctrl]
          THEN sw.target.ctrl ELSE "")
    ELSE IF sw.before # "" /\ sw.target.name \in sw.models[sw.before]
            /\ (SwitchRefreshes = <<>> \/ sw.err # Errorf("refreshing models cache", RefreshErr))
    THEN sw.before ELSE ""

C24_FruitlessRefresh ==
    /\ SwitchDone /\ sw.err = UnknownTargetErr
    /\ sw.calls = <<StubCall("ReadCurrentController", ""),
                    StubCall("RefreshModels", "old")>>


----------------------------------------------------------------------------
(* Claims on AttachFilesystems (SpecFs). *)

AttachReturned == fs.pc = "done" /\ fs.err = Nil

\* the mount commands the last call ran for a mount point
MountsAt(p) == SelectSeq(fs.cmds, LAMBDA c : c[1] = "mount" /\ c[Len(c)] = p)

\* C27: when AttachFilesystems has returned success, each filesystem it was
\* asked to attach is in the filesystems map, the volume of the filesystem is
\* in the block-device map, and the device mounted at the path asked for is
\* the device of that volume; and the call ran no mount command for an
\* attachment that an earlier call had returned.
C27_AttachMounts ==
    AttachReturned =>
        \A i \in DOMAIN fs.args :
            LET arg == fs.args[i] IN
            /\ fs.filesystems[arg.Filesystem] # Absent
            /\ fs.volumeBlockDevices[fs.filesystems[arg.Filesystem].Volume] # Absent
            /\ mountPointSource(fs.mounts, arg.Path) =
                   devicePath(fs.volumeBlockDevices[fs.filesystems[arg.Filesystem].Volume])
            /\ arg \in fs.attached => MountsAt(arg.Path) = <<>>

\* AttachFilesystems returned success for a filesystem at a mount point where
\* the device of another filesystem is mounted, and ran no mount command
AttachOverForeignMount ==
    /\ AttachReturned
    /\ Len(fs.args) = 1 /\ fs.cmds = <<>>
    /\ fs.filesystems[fs.args[1].Filesystem] # Absent
    /\ fs.volumeBlockDevices[fs.filesystems[fs.args[1].Filesystem].Volume] # Absent
    /\ fs.mounts[fs.args[1].Path] # NoMount
    /\ fs.mounts[fs.args[1].Path] #
           devicePath(fs.volumeBlockDevices[fs.filesystems[fs.args[1].Filesystem].Volume])

\* a repeated attach ran mount again: the device is mounted at the parent of
\* the mount point as well, so the mount point does not look mounted
AttachMountsAgain ==
    /\ AttachReturned
    /\ \E i \in DOMAIN fs.args :
           fs.args[i] \in fs.attached /\ MountsAt(fs.args[i].Path) # <<>>

====
